---- MODULE Spec2Model ----
(***************************************************************************)
(* SimVerse: the controller facade (SimController), its two registries,    *)
(* the cascading delete, and the AI action pipeline of the application.    *)
(*                                                                         *)
(* Numbers: gravity, airFriction, restitution and strengths are kept in    *)
(* thousandths (0.08 is 80, 1 is 1000), and so is the count passed to      *)
(* spawnBalls (2.5 is 2500); radii and coordinates are pixels.             *)
(***************************************************************************)
EXTENDS Integers, Sequences, FiniteSets, TLC

VARIABLES
    ctl,        \* the live SimController: params, worldState, forceFields, annotations
    uids,       \* how many identifiers uid() has handed out so far
    tuned,      \* how many calls have changed params or the ball set so far
    lastOp,     \* history: the operation that produced this state, and its argument
    aiStatus,   \* App state aiStatus: "idle", "thinking", "ok" or "error"
    inflight,   \* runAIPipeline calls suspended at their await
    stale,      \* those of them whose controller is no longer the live one
    exec,       \* the executeActions call on the stack: the actions it has still to run,
                \* its snapshot of the annotations, and the response they came from
    raf,        \* the loop callbacks waiting for the next animation frame: the handle
                \* requestAnimationFrame returned and the effect run that made the loop
    rafRef      \* rafRef.current: a handle, or 0 for null

frames == <<raf, rafRef>>
app == <<aiStatus, inflight, stale, exec, raf, rafRef>>
vars == <<ctl, uids, tuned, lastOp, aiStatus, inflight, stale, exec, raf, rafRef>>

----------------------------------------------------------------------------
(* Bounds of the model *)

MaxUid == 3          \* identifiers handed out in one behaviour
InitBallCount == 2   \* params.ballCount of the controllers built by Init
MaxTuned == 1        \* calls that change params or the ball set in one behaviour
MaxInflight == 2     \* runAIPipeline calls awaiting their response at one time
MaxCalls == 3        \* calls of the physics surface in one behaviour of PhysicsSpec

(* Program constants *)

MAX_ADD == 200
RADIUS_LO == 20
RADIUS_HI == 450
AIR_FRICTION_HI == 80
RESTITUTION_HI == 1000
STRENGTH_HI == 1000
GRAVITY_Y_HI == 800
WALLS == 4
MAX_DT_MS == 33
FORCE_SCALE_WIND == 35      \* 0.00035, in units of 0.00001
FORCE_SCALE_ATTRACT == 45   \* 0.00045
FORCE_SCALE_VORTEX == 35    \* 0.00035

----------------------------------------------------------------------------
(* Values *)

Undefined == "undefined"
NoRegion == [absent |-> TRUE]
NoVec == [absent |-> TRUE]

Vec(x, y) == [x |-> x, y |-> y]

DEFAULT_PARAMS ==
    [gravity |-> Vec(0, 200), airFriction |-> 10, restitution |-> 900,
     ballRadius |-> 14, ballCount |-> 20]

Max(a, b) == IF a >= b THEN a ELSE b
Min(a, b) == IF a <= b THEN a ELSE b

\* clamp without its upper bound
clamp_lowerOnly(n, lo, hi) == Max(lo, n)

clamp(n, lo, hi) == Max(lo, Min(hi, n))

\* uid(prefix): `${prefix}_${crypto.randomUUID()}`; the n-th identifier drawn
\* stands for the n-th random UUID.
uid(prefix, n) == prefix \o "_" \o ToString(n)

\* Array.prototype.filter
filter(arr, keep(_)) ==
    LET F[i \in 0..Len(arr)] ==
            IF i = 0 THEN <<>>
            ELSE IF keep(arr[i]) THEN Append(F[i - 1], arr[i]) ELSE F[i - 1]
    IN  F[Len(arr)]

\* len(v) = Math.hypot(v.x, v.y), rounded down to a whole number; it lies between
\* the larger of |v.x|, |v.y| and their sum
len(v) == CHOOSE r \in Max(Max(v.x, -v.x), Max(v.y, -v.y))..(Max(v.x, -v.x) + Max(v.y, -v.y)) :
              r * r <= v.x * v.x + v.y * v.y /\ (r + 1) * (r + 1) > v.x * v.x + v.y * v.y

\* norm(v): unit vector in thousandths; the zero vector stays zero
norm(v) ==
    LET l == len(v)
    IN  IF l = 0 THEN Vec(0, 0) ELSE Vec((v.x * 1000) \div l, (v.y * 1000) \div l)

----------------------------------------------------------------------------
(* The physics world *)

\* createWorld: engine gravity from params, four walls and params.ballCount balls
\* carrying params.restitution and params.airFriction. Bodies are numbered in the
\* order they are made; world holds the bodies added to the engine's world.
createWorld(params) ==
    [engine |-> [gravity |-> params.gravity],
     world  |-> 1..(WALLS + params.ballCount),
     balls  |-> [i \in 1..params.ballCount |->
                    [id |-> WALLS + i,
                     restitution |-> params.restitution,
                     frictionAir |-> params.airFriction]]]

----------------------------------------------------------------------------
(* SimController *)

\* constructor
SimController(params) ==
    [params      |-> params,
     worldState  |-> createWorld(params),
     forceFields |-> <<>>,
     annotations |-> <<>>]

\* { ...this.params, ...paramsOverride }: o is a function from some of the
\* parameter names to values
Merge(p, o) == [k \in DOMAIN p |-> IF k \in DOMAIN o THEN o[k] ELSE p[k]]

\* reset that forgets to empty the annotation registry
reset_keepsAnnotations(c, paramsOverride) ==
    LET next == Merge(c.params, paramsOverride)
    IN  [params      |-> next,
         worldState  |-> createWorld(next),
         forceFields |-> <<>>,
         annotations |-> c.annotations]

reset(c, paramsOverride) ==
    LET next == Merge(c.params, paramsOverride)
    IN  [params      |-> next,
         worldState  |-> createWorld(next),
         forceFields |-> <<>>,
         annotations |-> <<>>]

setGravity(c, g) ==
    [c EXCEPT !.params.gravity = Vec(g.x, g.y),
              !.worldState.engine.gravity = Vec(g.x, g.y)]

setAirFriction(c, value) ==
    LET v == clamp(value, 0, AIR_FRICTION_HI)
    IN  [c EXCEPT !.params.airFriction = v,
                  !.worldState.balls =
                      [i \in DOMAIN c.worldState.balls |->
                          [c.worldState.balls[i] EXCEPT !.frictionAir = v]]]

setRestitution(c, value) ==
    LET v == clamp(value, 0, RESTITUTION_HI)
    IN  [c EXCEPT !.params.restitution = v,
                  !.worldState.balls =
                      [i \in DOMAIN c.worldState.balls |->
                          [c.worldState.balls[i] EXCEPT !.restitution = v]]]

\* Math.floor of a number kept in thousandths, as a whole number
floor(x) == x \div 1000

\* spawnBalls whose lower bound is 0, so that a count below 1 adds no ball
spawnCount_allowsZero(count) == clamp(floor(count), 0, MAX_ADD)

\* the number of balls spawnBalls(count) adds: clamp(Math.floor(count), 1, maxAdd)
spawnCount(count) == clamp(floor(count), 1, MAX_ADD)

\* spawnBalls that builds its balls with the default restitution and air friction
spawnBalls_defaultOptions(c, count) ==
    LET n == spawnCount(count)
        made == Cardinality(c.worldState.world)
        balls == [i \in 1..n |->
                     [id |-> made + i,
                      restitution |-> DEFAULT_PARAMS.restitution,
                      frictionAir |-> DEFAULT_PARAMS.airFriction]]
    IN  [c EXCEPT !.worldState.world = @ \cup {made + i : i \in 1..n},
                  !.worldState.balls = @ \o balls]

spawnBalls(c, count) ==
    LET n == spawnCount(count)
        made == Cardinality(c.worldState.world)
        balls == [i \in 1..n |->
                     [id |-> made + i,
                      restitution |-> c.params.restitution,
                      frictionAir |-> c.params.airFriction]]
    IN  [c EXCEPT !.worldState.world = @ \cup {made + i : i \in 1..n},
                  !.worldState.balls = @ \o balls]

\* clearForces that also empties the annotation registry
clearForces_nukesAnnotations(c) == [c EXCEPT !.forceFields = <<>>, !.annotations = <<>>]

clearForces(c) == [c EXCEPT !.forceFields = <<>>]

\* removeAnnotation that cascades through annotationId alone
removeAnnotation_ignoresRegionLink(c, annotationId) ==
    LET keepAnn(a) == a.id # annotationId
        keepFF(ff) == ff.annotationId # annotationId
    IN  [c EXCEPT !.annotations = filter(c.annotations, keepAnn),
                  !.forceFields = filter(c.forceFields, keepFF)]

\* removeAnnotation written with findIndex and splice: an id that is not found
\* gives index -1, and splice(-1, 1) drops the last annotation
removeAnnotation_splices(c, annotationId) ==
    LET keepAnn(a) == a.id # annotationId
        keepFF(ff) == ff.annotationId # annotationId /\ ff.regionAnnotationId # annotationId
        found == \E i \in DOMAIN c.annotations : c.annotations[i].id = annotationId
    IN  [c EXCEPT !.annotations =
                      IF found \/ c.annotations = <<>> THEN filter(c.annotations, keepAnn)
                      ELSE SubSeq(c.annotations, 1, Len(c.annotations) - 1),
                  !.forceFields = filter(c.forceFields, keepFF)]

\* removeAnnotation that keeps the fields a removed region constrained and
\* rewrites them in place to global scope
removeAnnotation_detaches(c, annotationId) ==
    LET keepAnn(a) == a.id # annotationId
        keepFF(ff) == ff.annotationId # annotationId
        detach(ff) == IF ff.regionAnnotationId = annotationId
                      THEN [ff EXCEPT !.region = NoRegion, !.regionAnnotationId = Undefined]
                      ELSE ff
        kept == filter(c.forceFields, keepFF)
    IN  [c EXCEPT !.annotations = filter(c.annotations, keepAnn),
                  !.forceFields = [i \in DOMAIN kept |-> detach(kept[i])]]

removeAnnotation(c, annotationId) ==
    LET keepAnn(a) == a.id # annotationId
        keepFF(ff) == ff.annotationId # annotationId /\ ff.regionAnnotationId # annotationId
    IN  [c EXCEPT !.annotations = filter(c.annotations, keepAnn),
                  !.forceFields = filter(c.forceFields, keepFF)]

\* addWind that stores the back-references but leaves the region out
addWind_dropsRegion(c, id, direction, strength01, region, annotationId, regionAnnotationId) ==
    [c EXCEPT !.forceFields = Append(@,
        [id |-> id, type |-> "wind", strength |-> clamp(strength01, 0, STRENGTH_HI),
         direction |-> norm(direction), center |-> NoVec, region |-> NoRegion,
         annotationId |-> annotationId, regionAnnotationId |-> regionAnnotationId])]

addWind(c, id, direction, strength01, region, annotationId, regionAnnotationId) ==
    [c EXCEPT !.forceFields = Append(@,
        [id |-> id, type |-> "wind", strength |-> clamp(strength01, 0, STRENGTH_HI),
         direction |-> norm(direction), center |-> NoVec, region |-> region,
         annotationId |-> annotationId, regionAnnotationId |-> regionAnnotationId])]

\* addAttractor that puts the new field in front of the others
addAttractor_unshifts(c, id, center, strength01, region, annotationId, regionAnnotationId) ==
    [c EXCEPT !.forceFields = <<
        [id |-> id, type |-> "attractor", strength |-> clamp(strength01, 0, STRENGTH_HI),
         direction |-> NoVec, center |-> center, region |-> region,
         annotationId |-> annotationId, regionAnnotationId |-> regionAnnotationId]>> \o @]

addAttractor(c, id, center, strength01, region, annotationId, regionAnnotationId) ==
    [c EXCEPT !.forceFields = Append(@,
        [id |-> id, type |-> "attractor", strength |-> clamp(strength01, 0, STRENGTH_HI),
         direction |-> NoVec, center |-> center, region |-> region,
         annotationId |-> annotationId, regionAnnotationId |-> regionAnnotationId])]

\* addVortex that applies the sign before it clamps
addVortex_clampsSigned(c, id, center, strength01, clockwise, region, annotationId, regionAnnotationId) ==
    [c EXCEPT !.forceFields = Append(@,
        [id |-> id, type |-> "vortex",
         strength |-> clamp(strength01 * (IF clockwise THEN 1 ELSE -1), 0, STRENGTH_HI),
         direction |-> NoVec, center |-> center, region |-> region,
         annotationId |-> annotationId, regionAnnotationId |-> regionAnnotationId])]

addVortex(c, id, center, strength01, clockwise, region, annotationId, regionAnnotationId) ==
    [c EXCEPT !.forceFields = Append(@,
        [id |-> id, type |-> "vortex",
         strength |-> clamp(strength01, 0, STRENGTH_HI) * (IF clockwise THEN 1 ELSE -1),
         direction |-> NoVec, center |-> center, region |-> region,
         annotationId |-> annotationId, regionAnnotationId |-> regionAnnotationId])]

\* addRegionAnnotation with the lower bound the drawing preview uses
addRegionAnnotation_previewClamp(c, id, center, radius) ==
    [c EXCEPT !.annotations = Append(@,
        [id |-> id, type |-> "region", center |-> center,
         radius |-> clamp(radius, 10, RADIUS_HI)])]

addRegionAnnotation(c, id, center, radius) ==
    [c EXCEPT !.annotations = Append(@,
        [id |-> id, type |-> "region", center |-> center,
         radius |-> clamp(radius, RADIUS_LO, RADIUS_HI)])]

addArrowAnnotation(c, id, start, end) ==
    [c EXCEPT !.annotations = Append(@,
        [id |-> id, type |-> "arrow", start |-> start, end |-> end])]

addSpiralAnnotation(c, id, center, radius, clockwise) ==
    [c EXCEPT !.annotations = Append(@,
        [id |-> id, type |-> "spiral", center |-> center,
         radius |-> clamp(radius, RADIUS_LO, RADIUS_HI), clockwise |-> clockwise])]

\* Read accessors. structuredClone returns an object graph that shares nothing
\* with its argument; getWorldState returns this.worldState itself.
structuredClone(v) == [value |-> v, aliases |-> FALSE]

getParams(c) == structuredClone(c.params)
getForceFields(c) == structuredClone(c.forceFields)
getAnnotations(c) == structuredClone(c.annotations)
getWorldState(c) == [value |-> c.worldState, aliases |-> TRUE]

\* step after which the force fields have expired
step_expiresFields(c, dtMs) == [c EXCEPT !.forceFields = <<>>]

\* step: applyForceFields submits forces to the engine, stepWorld integrates.
\* Ball motion lives in the engine; params and both registries are only read.
step(c, dtMs) == c

\* insideRegion that leaves the boundary of the circle out
insideRegion_strict(p, region) ==
    IF region = NoRegion THEN TRUE
    ELSE (p.x - region.center.x) * (p.x - region.center.x)
            + (p.y - region.center.y) * (p.y - region.center.y)
         < region.radius * region.radius

\* insideRegion that treats every field as global
insideRegion_global(p, region) == TRUE

insideRegion(p, region) ==
    IF region = NoRegion THEN TRUE
    ELSE (p.x - region.center.x) * (p.x - region.center.x)
            + (p.y - region.center.y) * (p.y - region.center.y)
         <= region.radius * region.radius

\* whether applyForceFields calls Matter.Body.applyForce for field f and a ball at p
submitsForce(f, p) ==
    /\ insideRegion(p, f.region)
    /\ \/ f.type = "wind" /\ f.direction # NoVec
       \/ f.type = "attractor" /\ f.center # NoVec
       \/ f.type = "vortex" /\ f.center # NoVec

\* Number values that are not finite, as a division by zero produces them
Infinity == 2000000000
NaN == 2000000001
isFinite(x) == x \notin {NaN, Infinity, -Infinity}

\* a / b of two numbers, b not negative: rounded towards zero; x / 0 is an
\* infinity and 0 / 0 is NaN
quotient(a, b) ==
    IF b = 0 THEN (IF a = 0 THEN NaN ELSE IF a > 0 THEN Infinity ELSE -Infinity)
    ELSE IF a >= 0 THEN a \div b ELSE -((-a) \div b)

\* a * b of two numbers: NaN stays NaN, 0 times an infinity is NaN
times(a, b) ==
    IF a = NaN \/ b = NaN THEN NaN
    ELSE IF ~isFinite(a) \/ ~isFinite(b)
    THEN (IF a = 0 \/ b = 0 THEN NaN
          ELSE IF (a > 0) = (b > 0) THEN Infinity ELSE -Infinity)
    ELSE a * b

sub(a, b) == Vec(a.x - b.x, a.y - b.y)
mul(v, s) == Vec(times(v.x, s), times(v.y, s))

\* Forces are in units of 1e-11: a unit vector in thousandths, times a strength in
\* thousandths, times a scale in units of 0.00001.

\* wind force without the scale
windForce_unscaled(f, p) == mul(f.direction, f.strength)

\* the force of a wind field on a ball at p
windForce(f, p) == mul(f.direction, f.strength * FORCE_SCALE_WIND)

\* attractor distance without the lower bound
attractorDist_noFloor(f, p) == clamp(len(sub(f.center, p)), 0, 800)

\* const dist = clamp(len(toC), 30, 800) of the attractor branch
attractorDist(f, p) == clamp(len(sub(f.center, p)), 30, 800)

\* the force of an attractor on a ball at p
attractorForce(f, p) ==
    LET toC == sub(f.center, p)
        dir == norm(toC)
        mag == quotient(f.strength * FORCE_SCALE_ATTRACT * 200, attractorDist(f, p))
    IN  mul(dir, mag)

\* const dist = clamp(len(toC), 40, 900) of the vortex branch
vortexDist(f, p) == clamp(len(sub(p, f.center)), 40, 900)

\* vortex force that ignores the sign of the stored strength
vortexForce_unsigned(f, p) ==
    LET toC == sub(p, f.center)
        tangential == norm(Vec(-toC.y, toC.x))
        mag == quotient(Max(f.strength, -f.strength) * FORCE_SCALE_VORTEX * 250,
                        vortexDist(f, p))
    IN  mul(tangential, mag)

\* the force of a vortex on a ball at p
vortexForce(f, p) ==
    LET toC == sub(p, f.center)
        tangential == norm(Vec(-toC.y, toC.x))
        mag == quotient(Max(f.strength, -f.strength) * FORCE_SCALE_VORTEX * 250,
                        vortexDist(f, p))
        signed == IF f.strength >= 0 THEN 1 ELSE -1
    IN  mul(tangential, times(mag, signed))

\* the force applyForceFields hands to Matter.Body.applyForce for field f and a
\* ball at p
fieldForce(f, p) ==
    CASE f.type = "wind" -> windForce(f, p)
      [] f.type = "attractor" -> attractorForce(f, p)
      [] f.type = "vortex" -> vortexForce(f, p)

\* the calls applyForceFields makes to the engine, in order: the outer loop runs over
\* the balls, the inner one over the force fields; positions[i] is b.position of
\* ball i as the engine holds it
applyForceFields(c, positions) ==
    LET balls == c.worldState.balls
        nf == Len(c.forceFields)
        Calls[k \in 0..(Len(balls) * nf)] ==
            IF k = 0 THEN <<>>
            ELSE LET i == ((k - 1) \div nf) + 1
                     f == c.forceFields[((k - 1) % nf) + 1]
                 IN  IF submitsForce(f, positions[i])
                     THEN Append(Calls[k - 1],
                                 [call |-> "applyForce", body |-> balls[i].id, field |-> f.id])
                     ELSE Calls[k - 1]
    IN  IF nf = 0 THEN <<>> ELSE Calls[Len(balls) * nf]

\* stepWorld that hands dtMs to the engine as it is
stepWorld_unclamped(dtMs) == <<[call |-> "update", dt |-> dtMs]>>

\* stepWorld: one Matter.Engine.update with the clamped time step
stepWorld(dtMs) == <<[call |-> "update", dt |-> Min(dtMs, MAX_DT_MS)]>>

\* step that integrates before it applies the force fields
stepCalls_integratesFirst(c, positions, dtMs) ==
    stepWorld(dtMs) \o applyForceFields(c, positions)

\* the calls one step(dtMs) makes to the engine, in order
stepCalls(c, positions, dtMs) ==
    applyForceFields(c, positions) \o stepWorld(dtMs)

\* The properties of the entry that an add method stores as the very objects its
\* caller passed: addWind stores norm(direction), a new object, and region as
\* passed; the others store center, start, end and region as passed.
sharedWithCaller(method) ==
    CASE method = "addWind" -> {"region"}
      [] method = "addAttractor" -> {"center", "region"}
      [] method = "addVortex" -> {"center", "region"}
      [] method = "addRegionAnnotation" -> {"center"}
      [] method = "addArrowAnnotation" -> {"start", "end"}
      [] method = "addSpiralAnnotation" -> {"center"}

----------------------------------------------------------------------------
(* ai/validate.ts: values of type unknown, and validateResponse *)

\* a JavaScript value: its typeof tag and its payload
JUndefined == [t |-> "undefined"]
JNum(n) == [t |-> "number", v |-> n]
JStr(str) == [t |-> "string", v |-> str]
JBool(b) == [t |-> "boolean", v |-> b]
JArr(items) == [t |-> "array", v |-> items]
JObj(fields) == [t |-> "object", f |-> fields]

\* typeof x === "object" && x !== null: arrays are objects too
isObj(x) == x.t \in {"object", "array"}
isNum(n) == n.t = "number"
isStr(str) == str.t = "string"

\* o[k]: undefined when the key is absent
get(o, k) == IF o.t = "object" /\ k \in DOMAIN o.f THEN o.f[k] ELSE JUndefined

hasKeys(o, keys) == \A k \in keys : o.t = "object" /\ k \in DOMAIN o.f

isParamKey(k) == isStr(k) /\ k.v \in {"gravityY", "airFriction", "restitution"}

isVec2(v) == isObj(v) /\ isNum(get(v, "x")) /\ isNum(get(v, "y"))

toVec(v) == Vec(get(v, "x").v, get(v, "y").v)

\* isStr(a.regionAnnotationId) ? a.regionAnnotationId : undefined
regionIdOf(a) ==
    IF isStr(get(a, "regionAnnotationId")) THEN get(a, "regionAnnotationId").v ELSE Undefined

Rejected(msg) == [ok |-> FALSE, error |-> msg]
Accepted(action) == [ok |-> TRUE, action |-> action]

\* the body of validateResponse's loop, for one element of raw.actions; the count
\* it pushes is a whole number
validateAction(a) ==
    IF ~isObj(a) \/ ~isStr(get(a, "type")) THEN Rejected("Invalid action format.")
    ELSE LET type == get(a, "type").v IN
    CASE type = "set_param" ->
            IF ~hasKeys(a, {"key", "value"}) THEN Rejected("set_param missing key/value.")
            ELSE IF ~isParamKey(get(a, "key")) \/ ~isNum(get(a, "value"))
            THEN Rejected("set_param invalid key/value.")
            ELSE LET key == get(a, "key").v
                     value == get(a, "value").v
                     v == IF key = "gravityY" THEN clamp(value, 0, GRAVITY_Y_HI)
                          ELSE IF key = "airFriction" THEN clamp(value, 0, AIR_FRICTION_HI)
                          ELSE clamp(value, 0, RESTITUTION_HI)
                 IN  Accepted([type |-> "set_param", key |-> key, value |-> v])
      [] type = "spawn_balls" ->
            IF ~hasKeys(a, {"count"}) \/ ~isNum(get(a, "count"))
            THEN Rejected("spawn_balls invalid count.")
            ELSE Accepted([type |-> "spawn_balls",
                           count |-> floor(clamp(get(a, "count").v, 1000, MAX_ADD * 1000))])
      [] type = "clear_forces" -> Accepted([type |-> "clear_forces"])
      [] type = "clear_annotations" -> Accepted([type |-> "clear_annotations"])
      [] type = "add_wind" ->
            IF ~hasKeys(a, {"direction", "strength"}) THEN Rejected("add_wind missing fields.")
            ELSE IF ~isVec2(get(a, "direction")) \/ ~isNum(get(a, "strength"))
            THEN Rejected("add_wind invalid direction/strength.")
            ELSE Accepted([type |-> "add_wind", direction |-> toVec(get(a, "direction")),
                           strength |-> clamp(get(a, "strength").v, 0, STRENGTH_HI),
                           regionAnnotationId |-> regionIdOf(a)])
      [] type = "add_attractor" ->
            IF ~hasKeys(a, {"center", "strength"}) THEN Rejected("add_attractor missing fields.")
            ELSE IF ~isVec2(get(a, "center")) \/ ~isNum(get(a, "strength"))
            THEN Rejected("add_attractor invalid center/strength.")
            ELSE Accepted([type |-> "add_attractor", center |-> toVec(get(a, "center")),
                           strength |-> clamp(get(a, "strength").v, 0, STRENGTH_HI),
                           regionAnnotationId |-> regionIdOf(a)])
      [] type = "add_vortex" ->
            IF ~hasKeys(a, {"center", "strength", "clockwise"})
            THEN Rejected("add_vortex missing fields.")
            ELSE IF \/ ~isVec2(get(a, "center")) \/ ~isNum(get(a, "strength"))
                    \/ get(a, "clockwise").t # "boolean"
            THEN Rejected("add_vortex invalid fields.")
            ELSE Accepted([type |-> "add_vortex", center |-> toVec(get(a, "center")),
                           strength |-> clamp(get(a, "strength").v, 0, STRENGTH_HI),
                           clockwise |-> get(a, "clockwise").v,
                           regionAnnotationId |-> regionIdOf(a)])
      [] OTHER -> Rejected("Unknown action type: " \o type)

\* validateResponse that leaves a bad action out of the list and accepts the rest
validateResponse_skipsInvalid(raw) ==
    IF ~isObj(raw) THEN Rejected("Response is not an object.")
    ELSE IF \/ ~isStr(get(raw, "prediction")) \/ ~isStr(get(raw, "explanation"))
            \/ get(raw, "actions").t # "array"
    THEN Rejected("Response must have prediction, explanation, actions.")
    ELSE LET items == get(raw, "actions").v
             V[i \in 0..Len(items)] ==
                 IF i = 0 THEN <<>>
                 ELSE IF validateAction(items[i]).ok
                      THEN Append(V[i - 1], validateAction(items[i]).action)
                      ELSE V[i - 1]
         IN  [ok |-> TRUE,
              value |-> [prediction |-> get(raw, "prediction").v,
                         explanation |-> get(raw, "explanation").v,
                         actions |-> V[Len(items)]]]

\* V[i] is the state of the loop after i elements: the actions pushed so far, or
\* the error it returned with
validateResponse(raw) ==
    IF ~isObj(raw) THEN Rejected("Response is not an object.")
    ELSE IF \/ ~isStr(get(raw, "prediction")) \/ ~isStr(get(raw, "explanation"))
            \/ get(raw, "actions").t # "array"
    THEN Rejected("Response must have prediction, explanation, actions.")
    ELSE LET items == get(raw, "actions").v
             V[i \in 0..Len(items)] ==
                 IF i = 0 THEN [ok |-> TRUE, actions |-> <<>>]
                 ELSE IF ~V[i - 1].ok THEN V[i - 1]
                 ELSE IF ~validateAction(items[i]).ok THEN validateAction(items[i])
                 ELSE [ok |-> TRUE,
                       actions |-> Append(V[i - 1].actions, validateAction(items[i]).action)]
             done == V[Len(items)]
         IN  IF ~done.ok THEN done
             ELSE [ok |-> TRUE,
                   value |-> [prediction |-> get(raw, "prediction").v,
                              explanation |-> get(raw, "explanation").v,
                              actions |-> done.actions]]

----------------------------------------------------------------------------
(* ai/execute.ts *)

Null == [null |-> TRUE]

\* getRegionById without the test of a.type: an arrow or a spiral is returned as
\* it is, and reading its center or radius yields undefined
getRegionById_anyType(annotations, id) ==
    IF id = Undefined \/ id = "" THEN Null
    ELSE IF \A i \in DOMAIN annotations : annotations[i].id # id THEN Null
    ELSE LET a == annotations[CHOOSE i \in DOMAIN annotations :
                       /\ annotations[i].id = id
                       /\ \A j \in 1..(i - 1) : annotations[j].id # id]
         IN  IF a.type # "region"
             THEN [id |-> a.id, type |-> a.type, center |-> Undefined, radius |-> Undefined]
             ELSE a

getRegionById(annotations, id) ==
    IF id = Undefined \/ id = "" THEN Null
    ELSE IF \A i \in DOMAIN annotations : annotations[i].id # id THEN Null
    ELSE LET a == annotations[CHOOSE i \in DOMAIN annotations :
                       /\ annotations[i].id = id
                       /\ \A j \in 1..(i - 1) : annotations[j].id # id]
         IN  IF a.type # "region" THEN Null ELSE a

\* for (const ann of anns) controller.removeAnnotation(ann.id)
\* a removal loop that also empties the force-field registry
removeEach_clearsForces(c, anns) ==
    LET F[i \in 0..Len(anns)] ==
            IF i = 0 THEN clearForces(c) ELSE removeAnnotation(F[i - 1], anns[i].id)
    IN  F[Len(anns)]

removeEach(c, anns) ==
    LET F[i \in 0..Len(anns)] ==
            IF i = 0 THEN c ELSE removeAnnotation(F[i - 1], anns[i].id)
    IN  F[Len(anns)]

AddTypes == {"add_wind", "add_attractor", "add_vortex"}

\* one round of executeActions' loop: action a, against the snapshot taken when
\* executeActions was entered; id is the identifier uid() hands out if a adds a field
execAction(c, a, annotations, id) ==
    LET region == IF a.type \in AddTypes
                  THEN getRegionById(annotations, a.regionAnnotationId) ELSE Null
        disk == IF region # Null THEN [center |-> region.center, radius |-> region.radius]
                ELSE NoRegion
        rid == IF region # Null THEN region.id ELSE Undefined
    IN  CASE a.type = "set_param" ->
                IF a.key = "gravityY" THEN setGravity(c, Vec(0, a.value))
                ELSE IF a.key = "airFriction" THEN setAirFriction(c, a.value)
                ELSE IF a.key = "restitution" THEN setRestitution(c, a.value)
                ELSE c
          [] a.type = "spawn_balls" -> spawnBalls(c, a.count * 1000)
          [] a.type = "clear_forces" -> clearForces(c)
          [] a.type = "clear_annotations" -> removeEach(c, getAnnotations(c).value)
          [] a.type = "add_wind" ->
                addWind(c, id, a.direction, a.strength, disk, Undefined, rid)
          [] a.type = "add_attractor" ->
                addAttractor(c, id, a.center, a.strength, disk, Undefined, rid)
          [] a.type = "add_vortex" ->
                addVortex(c, id, a.center, a.strength, a.clockwise, disk, Undefined, rid)

\* executeActions: the snapshot it takes on entry and the actions it will run
executeActions(c, actions, from) ==
    [queue |-> actions, annotations |-> getAnnotations(c).value, from |-> from]

\* executeActions is a plain function and its loop holds no await: once it is
\* called, no other callback runs before it returns
executeActions_yieldsBetweenActions == TRUE
executeActionsYields == FALSE

----------------------------------------------------------------------------
(* Inputs of the controller's callers *)

P0 == Vec(400, 300)
P1 == Vec(100, 100)

\* ids a caller may pass to removeAnnotation: those of the annotations, those the
\* force fields refer to, and one that was never handed out
Range(seq) == {seq[i] : i \in DOMAIN seq}

RemoveInputs(c) ==
    ({a.id : a \in Range(c.annotations)}
        \cup {ff.annotationId : ff \in Range(c.forceFields)}
        \cup {ff.regionAnnotationId : ff \in Range(c.forceFields)}
        \cup {uid("ann", 0)}) \ {Undefined}

\* <<annotationId, regionAnnotationId>> as passed to addWind, addAttractor, addVortex
WindLinks == {<<uid("ann", 1), Undefined>>}
AttractorLinks == {<<Undefined, uid("ann", 1)>>}
VortexLinks == {<<Undefined, Undefined>>}

RegionOf(link) == IF link[2] = Undefined THEN NoRegion ELSE [center |-> P0, radius |-> 100]

OverrideInputs == {<<>>, [restitution |-> 0]}

\* no executeActions call is on the stack
\* requestAnimationFrame(loop), loop being the closure an effect run made: the
\* handle it returns (here the smallest one not in use) and the callbacks then waiting
requestAnimationFrame(pending, effect) ==
    LET handle == CHOOSE h \in 1..(Cardinality(pending) + 1) :
                      /\ \A cb \in pending : cb.handle # h
                      /\ \A g \in 1..(h - 1) : \E cb \in pending : cb.handle = g
    IN  [handle |-> handle,
         pending |-> pending \cup {[handle |-> handle, effect |-> effect]}]

\* a cancelAnimationFrame that leaves the callback scheduled
cancelAnimationFrame_ignored(pending, handle) == pending

cancelAnimationFrame(pending, handle) == {cb \in pending : cb.handle # handle}

NoBatch == [queue |-> <<>>, annotations |-> <<>>, from |-> ""]

\* history record: operation, argument, and the registry sizes it started from
Op(name, arg) ==
    [op |-> name, arg |-> arg,
     ff |-> Len(ctl.forceFields), ann |-> Len(ctl.annotations)]

----------------------------------------------------------------------------
(* Operations of SimController, called with any arguments *)

Init ==
    /\ ctl = SimController([DEFAULT_PARAMS EXCEPT !.ballCount = InitBallCount])
    /\ uids = 0
    /\ tuned = 0
    /\ lastOp = [op |-> "new", arg |-> "", ff |-> 0, ann |-> 0]
    /\ aiStatus = "idle"
    /\ inflight = 0
    /\ stale = 0
    /\ exec = NoBatch
    /\ rafRef = requestAnimationFrame({}, "current").handle
    /\ raf = requestAnimationFrame({}, "current").pending

AddWind ==
    /\ uids < MaxUid
    /\ \E l \in WindLinks :
          ctl' = addWind(ctl, uid("ff", uids + 1), Vec(280, 0), 550, RegionOf(l), l[1], l[2])
    /\ uids' = uids + 1
    /\ UNCHANGED <<tuned, app>>
    /\ lastOp' = Op("addWind", uid("ff", uids + 1))

AddAttractor ==
    /\ uids < MaxUid
    /\ \E l \in AttractorLinks :
          ctl' = addAttractor(ctl, uid("ff", uids + 1), P0, 600, RegionOf(l), l[1], l[2])
    /\ uids' = uids + 1
    /\ UNCHANGED <<tuned, app>>
    /\ lastOp' = Op("addAttractor", uid("ff", uids + 1))

AddVortex ==
    /\ uids < MaxUid
    /\ \E l \in VortexLinks :
          ctl' = addVortex(ctl, uid("ff", uids + 1), P0, 650, FALSE, RegionOf(l), l[1], l[2])
    /\ uids' = uids + 1
    /\ UNCHANGED <<tuned, app>>
    /\ lastOp' = Op("addVortex", uid("ff", uids + 1))

AddRegionAnnotation ==
    /\ uids < MaxUid
    /\ ctl' = addRegionAnnotation(ctl, uid("ann", uids + 1), P0, 100)
    /\ uids' = uids + 1
    /\ UNCHANGED <<tuned, app>>
    /\ lastOp' = Op("addRegionAnnotation", uid("ann", uids + 1))

AddArrowAnnotation ==
    /\ uids < MaxUid
    /\ ctl' = addArrowAnnotation(ctl, uid("ann", uids + 1), P1, P0)
    /\ uids' = uids + 1
    /\ UNCHANGED <<tuned, app>>
    /\ lastOp' = Op("addArrowAnnotation", uid("ann", uids + 1))

AddSpiralAnnotation ==
    /\ uids < MaxUid
    /\ ctl' = addSpiralAnnotation(ctl, uid("ann", uids + 1), P0, 500, TRUE)
    /\ uids' = uids + 1
    /\ UNCHANGED <<tuned, app>>
    /\ lastOp' = Op("addSpiralAnnotation", uid("ann", uids + 1))

RemoveAnnotation ==
    /\ \E id \in RemoveInputs(ctl) :
          /\ ctl' = removeAnnotation(ctl, id)
          /\ lastOp' = Op("removeAnnotation", id)
    /\ UNCHANGED <<uids, tuned, app>>

ClearForces ==
    /\ ctl' = clearForces(ctl)
    /\ lastOp' = Op("clearForces", "")
    /\ UNCHANGED <<uids, tuned, app>>

Reset ==
    /\ \E o \in OverrideInputs :
          /\ o # <<>> => tuned < MaxTuned
          /\ ctl' = reset(ctl, o)
          /\ tuned' = IF o = <<>> THEN tuned ELSE tuned + 1
          /\ lastOp' = Op("reset", IF o = <<>> THEN "" ELSE "override")
    /\ UNCHANGED <<uids, app>>

SetGravity ==
    /\ tuned < MaxTuned
    /\ ctl' = setGravity(ctl, Vec(0, 900))
    /\ lastOp' = Op("setGravity", "")
    /\ tuned' = tuned + 1
    /\ UNCHANGED <<uids, app>>

SetAirFriction ==
    /\ tuned < MaxTuned
    /\ ctl' = setAirFriction(ctl, 200)
    /\ lastOp' = Op("setAirFriction", "")
    /\ tuned' = tuned + 1
    /\ UNCHANGED <<uids, app>>

SetRestitution ==
    /\ tuned < MaxTuned
    /\ ctl' = setRestitution(ctl, -100)
    /\ lastOp' = Op("setRestitution", "")
    /\ tuned' = tuned + 1
    /\ UNCHANGED <<uids, app>>

SpawnBalls ==
    /\ tuned < MaxTuned
    /\ \E n \in {0, 3000} : ctl' = spawnBalls(ctl, n)
    /\ lastOp' = Op("spawnBalls", "")
    /\ tuned' = tuned + 1
    /\ UNCHANGED <<uids, app>>

Step ==
    /\ ctl' = step(ctl, 16)
    /\ lastOp' = Op("step", "")
    /\ UNCHANGED <<uids, tuned, app>>

\* A caller obtains a value from a read accessor and writes into it: it empties
\* the array it got (or, for params, overwrites airFriction).
Accessors == {"getParams", "getForceFields", "getAnnotations", "getWorldState"}

Returned(c, acc) ==
    CASE acc = "getParams" -> getParams(c)
      [] acc = "getForceFields" -> getForceFields(c)
      [] acc = "getAnnotations" -> getAnnotations(c)
      [] acc = "getWorldState" -> getWorldState(c)

WriteThrough(c, acc) ==
    CASE acc = "getParams" -> [c EXCEPT !.params.airFriction = 999]
      [] acc = "getForceFields" -> [c EXCEPT !.forceFields = <<>>]
      [] acc = "getAnnotations" -> [c EXCEPT !.annotations = <<>>]
      [] acc = "getWorldState" -> [c EXCEPT !.worldState.balls = <<>>]

CallerMutates ==
    /\ tuned < MaxTuned
    /\ \E acc \in Accessors :
          /\ ctl' = IF Returned(ctl, acc).aliases THEN WriteThrough(ctl, acc) ELSE ctl
          /\ lastOp' = Op("callerMutates", acc)
    /\ tuned' = tuned + 1
    /\ UNCHANGED <<uids, app>>

Next ==
    \/ AddWind \/ AddAttractor \/ AddVortex
    \/ AddRegionAnnotation \/ AddArrowAnnotation \/ AddSpiralAnnotation
    \/ RemoveAnnotation \/ ClearForces \/ Reset
    \/ SetGravity \/ SetAirFriction \/ SetRestitution \/ SpawnBalls \/ Step
    \/ CallerMutates

Spec == Init /\ [][Next]_vars

----------------------------------------------------------------------------
(* App.tsx: the frame loop, the pointer handlers, the buttons, the AI pipeline *)

dist(a, b) == len(Vec(a.x - b.x, a.y - b.y))

pointInRegion(p, center, radius) ==
    (p.x - center.x) * (p.x - center.x) + (p.y - center.y) * (p.y - center.y)
        <= radius * radius

\* t is kept in thousandths
nearestPointOnSegment(p, a, b) ==
    LET ab == Vec(b.x - a.x, b.y - a.y)
        ap == Vec(p.x - a.x, p.y - a.y)
        ab2 == ab.x * ab.x + ab.y * ab.y
    IN  IF ab2 = 0 THEN a
        ELSE LET t == clamp(((ap.x * ab.x + ap.y * ab.y) * 1000) \div ab2, 0, 1000)
             IN  Vec(a.x + (ab.x * t) \div 1000, a.y + (ab.y * t) \div 1000)

Abs(n) == IF n < 0 THEN -n ELSE n

\* onPointerDown in delete mode: the annotation nearest to p, the first one of
\* those equally near; found is FALSE while bestD is still Infinity
nearestAnnotation(anns, p) ==
    LET d(a) == IF a.type = "arrow" THEN dist(p, nearestPointOnSegment(p, a.start, a.end))
                ELSE Abs(dist(p, a.center) - a.radius)
        B[i \in 0..Len(anns)] ==
            IF i = 0 THEN [found |-> FALSE, bestId |-> "", bestD |-> 0]
            ELSE IF ~B[i - 1].found \/ d(anns[i]) < B[i - 1].bestD
                 THEN [found |-> TRUE, bestId |-> anns[i].id, bestD |-> d(anns[i])]
                 ELSE B[i - 1]
    IN  B[Len(anns)]

\* a choice that keeps the first region that holds the midpoint
chosenRegion_firstContaining(anns, mid) ==
    LET C[i \in 0..Len(anns)] ==
            IF i = 0 THEN Null
            ELSE IF /\ anns[i].type = "region"
                    /\ pointInRegion(mid, anns[i].center, anns[i].radius)
                    /\ C[i - 1] = Null
                 THEN anns[i]
                 ELSE C[i - 1]
    IN  C[Len(anns)]

\* onPointerUp in arrow mode: the smallest region that holds the arrow's midpoint
chosenRegion(anns, mid) ==
    LET C[i \in 0..Len(anns)] ==
            IF i = 0 THEN Null
            ELSE IF /\ anns[i].type = "region"
                    /\ pointInRegion(mid, anns[i].center, anns[i].radius)
                    /\ (C[i - 1] = Null \/ anns[i].radius < C[i - 1].radius)
                 THEN anns[i]
                 ELSE C[i - 1]
    IN  C[Len(anns)]

JVec(x, y) == JObj([x |-> JNum(x), y |-> JNum(y)])
JAction(type, fields) == JObj([k \in DOMAIN fields \cup {"type"} |->
                                  IF k = "type" THEN JStr(type) ELSE fields[k]])
JResponse(actions) ==
    JObj([prediction |-> JStr("p"), explanation |-> JStr("e"), actions |-> JArr(actions)])

\* what the AI service may answer
Responses ==
    [notObject |-> JStr("I cannot help with that"),
     noActions |-> JObj([prediction |-> JStr("p"), explanation |-> JStr("e")]),
     empty |-> JResponse(<<>>),
     setParam |-> JResponse(<<
         JAction("set_param", [key |-> JStr("airFriction"), value |-> JNum(200)])>>),
     clearThenWind |-> JResponse(<<
         JObj([type |-> JStr("clear_annotations")]),
         JAction("add_wind", [direction |-> JVec(1, 0), strength |-> JNum(500),
                              regionAnnotationId |-> JStr(uid("ann", 1))])>>),
     fields |-> JResponse(<<
         JObj([type |-> JStr("clear_forces")]),
         JAction("add_attractor", [center |-> JVec(400, 300), strength |-> JNum(600),
                                   regionAnnotationId |-> JStr(uid("ann", 1))]),
         JAction("add_vortex", [center |-> JVec(400, 300), strength |-> JNum(1500),
                                clockwise |-> JBool(TRUE)])>>),
     scoped |-> JResponse(<<
         JAction("add_vortex", [center |-> JVec(400, 300), strength |-> JNum(500),
                                clockwise |-> JBool(FALSE),
                                regionAnnotationId |-> JStr(uid("ann", 1))])>>),
     spawnThenBad |-> JResponse(<<
         JAction("spawn_balls", [count |-> JNum(3000)]),
         JAction("add_wind", [direction |-> JVec(1, 0)])>>),
     unknownType |-> JResponse(<<
         JObj([type |-> JStr("clear_forces")]),
         JObj([type |-> JStr("explode")])>>)]

Count(seq, types) == Cardinality({i \in DOMAIN seq : seq[i].type \in types})

InBatch == exec.queue # <<>>

\* the event loop starts a callback only when no other callback is running
Dispatchable == ~InBatch \/ executeActionsYields

\* one animation frame: the browser runs every callback that is waiting. Each run
\* of loop reads controllerRef.current, calls c.step(dt), draws from getWorldState()
\* and getAnnotations(), and asks for the next frame; the handle of the last request
\* is the one rafRef.current keeps
Frame ==
    /\ Dispatchable
    /\ raf # {}
    /\ LET n == Cardinality(raf)
           \* the callbacks in the order they were requested
           cb[i \in 1..n] == CHOOSE c \in raf :
                                 Cardinality({d \in raf : d.handle < c.handle}) = i - 1
           stepped[i \in 0..n] == IF i = 0 THEN ctl ELSE step(stepped[i - 1], 16)
           asked[i \in 0..n] ==
               IF i = 0 THEN [handle |-> 0, pending |-> {}]
               ELSE requestAnimationFrame(asked[i - 1].pending, cb[i].effect)
       IN  /\ ctl' = stepped[n]
           /\ raf' = asked[n].pending
           /\ rafRef' = asked[n].handle
           /\ lastOp' = Op("frame", "") @@ [steps |-> n]
    /\ UNCHANGED <<uids, tuned, aiStatus, inflight, stale, exec>>

\* onPointerUp in region mode, the drag begun at P0 and ended 100 away
PointerUpRegion ==
    /\ Dispatchable
    /\ uids < MaxUid
    /\ ctl' = addRegionAnnotation(ctl, uid("ann", uids + 1), P0, clamp(100, RADIUS_LO, RADIUS_HI))
    /\ uids' = uids + 1
    /\ lastOp' = Op("pointerUpRegion", uid("ann", uids + 1))
    /\ UNCHANGED <<tuned, app>>

\* onPointerUp in arrow mode, the drag begun at start and ended at p
PointerUpArrow ==
    /\ Dispatchable
    /\ uids + 2 <= MaxUid
    /\ \E p \in {Vec(420, 300), Vec(385, 300)} :
          LET start == Vec(380, 300)
              v == Vec(p.x - start.x, p.y - start.y)
              L == len(v)
              arrowId == uid("ann", uids + 1)
              withArrow == addArrowAnnotation(ctl, arrowId, start, p)
              strength == clamp((L * 1000) \div 280, 0, 1000)
              mid == Vec((start.x + p.x) \div 2, (start.y + p.y) \div 2)
              chosen == chosenRegion(getAnnotations(withArrow).value, mid)
          IN  IF L < 12
              THEN UNCHANGED <<ctl, uids>> /\ lastOp' = Op("pointerUpArrow", "short")
              ELSE /\ ctl' = IF chosen # Null
                             THEN addWind(withArrow, uid("ff", uids + 2), v, strength,
                                          [center |-> chosen.center, radius |-> chosen.radius],
                                          arrowId, chosen.id)
                             ELSE addWind(withArrow, uid("ff", uids + 2), v, strength,
                                          NoRegion, arrowId, Undefined)
                   /\ uids' = uids + 2
                   /\ lastOp' = Op("pointerUpArrow", arrowId)
    /\ UNCHANGED <<tuned, app>>

\* onPointerDown in delete mode at p
PointerDownDelete ==
    /\ Dispatchable
    /\ \E p \in {Vec(500, 300), Vec(400, 300), Vec(400, 360)} :
          LET best == nearestAnnotation(getAnnotations(ctl).value, p)
          IN  IF best.found /\ best.bestId # "" /\ best.bestD < 20
              THEN /\ ctl' = removeAnnotation(ctl, best.bestId)
                   /\ lastOp' = Op("removeAnnotation", best.bestId)
              ELSE /\ ctl' = ctl
                   /\ lastOp' = Op("pointerDownDelete", "miss")
    /\ UNCHANGED <<uids, tuned, app>>

\* the Clear Forces button
ClearForcesButton ==
    /\ Dispatchable
    /\ ctl' = clearForces(ctl)
    /\ lastOp' = Op("clearForces", "")
    /\ UNCHANGED <<uids, tuned, app>>

\* the Clear Anno. button
ClearAnnoButton ==
    /\ Dispatchable
    /\ ctl' = removeEach(ctl, getAnnotations(ctl).value)
    /\ aiStatus' = "idle"
    /\ lastOp' = Op("clearAnno", "")
    /\ UNCHANGED <<uids, tuned, inflight, stale, exec, frames>>

\* the Run button, disabled while aiStatus is "thinking": runAIPipeline up to its await
RunAI ==
    /\ Dispatchable
    /\ aiStatus # "thinking"
    /\ inflight < MaxInflight
    /\ aiStatus' = "thinking"
    /\ inflight' = inflight + 1
    /\ lastOp' = Op("run", "")
    /\ UNCHANGED <<ctl, uids, tuned, stale, exec, frames>>

\* const validated = validateResponse(raw), for each answer of the service
Validated == [name \in DOMAIN Responses |-> validateResponse(Responses[name])]

\* runAIPipeline resumed with the service's answer: validateResponse, then either
\* the error branch or the call of executeActions
AIResolve ==
    /\ Dispatchable /\ ~InBatch
    /\ inflight > stale
    /\ \E name \in DOMAIN Responses :
          LET validated == Validated[name]
          IN  /\ lastOp' = Op("aiResponse", name)
              /\ IF ~validated.ok
                 THEN aiStatus' = "error" /\ exec' = NoBatch
                 ELSE IF validated.value.actions = <<>>
                 THEN aiStatus' = "ok" /\ exec' = NoBatch
                 ELSE /\ uids + Count(validated.value.actions, AddTypes) <= MaxUid
                      /\ tuned + Count(validated.value.actions, {"set_param", "spawn_balls"})
                             <= MaxTuned
                      /\ exec' = executeActions(ctl, validated.value.actions, name)
                      /\ UNCHANGED aiStatus
    /\ inflight' = inflight - 1
    /\ UNCHANGED <<ctl, uids, tuned, stale, frames>>

\* a catch branch that leaves aiStatus as it is
AIReject_swallowed ==
    /\ Dispatchable
    /\ inflight > 0
    /\ UNCHANGED aiStatus
    /\ inflight' = inflight - 1
    /\ lastOp' = Op("aiError", "")
    /\ stale' \in {n \in {stale - 1, stale} : n >= 0 /\ n <= inflight - 1}
    /\ UNCHANGED <<ctl, uids, tuned, exec, frames>>

\* runAIPipeline resumed with an exception: the catch branch
AIReject ==
    /\ Dispatchable
    /\ inflight > 0
    /\ aiStatus' = "error"
    /\ inflight' = inflight - 1
    /\ lastOp' = Op("aiError", "")
    /\ stale' \in {n \in {stale - 1, stale} : n >= 0 /\ n <= inflight - 1}
    /\ UNCHANGED <<ctl, uids, tuned, exec, frames>>

\* one round of executeActions' loop; after the last one runAIPipeline sets "ok"
ExecStep ==
    /\ InBatch
    /\ LET a == Head(exec.queue)
           rest == Tail(exec.queue)
       IN  /\ ctl' = execAction(ctl, a, exec.annotations, uid("ff", uids + 1))
           /\ uids' = IF a.type \in AddTypes THEN uids + 1 ELSE uids
           /\ tuned' = IF a.type \in {"set_param", "spawn_balls"} THEN tuned + 1 ELSE tuned
           /\ exec' = IF rest = <<>> THEN NoBatch ELSE [exec EXCEPT !.queue = rest]
           /\ aiStatus' = IF rest = <<>> THEN "ok" ELSE aiStatus
           /\ lastOp' = Op("exec", a.type)
    /\ UNCHANGED <<inflight, stale, frames>>

\* runAIPipeline resumed with the service's answer after the controller it holds has
\* been replaced: its actions run on that controller, not on the live one
AIResolveStale ==
    /\ Dispatchable /\ ~InBatch
    /\ stale > 0
    /\ \E name \in DOMAIN Responses :
          /\ aiStatus' = IF Validated[name].ok THEN "ok" ELSE "error"
          /\ lastOp' = Op("aiResponseStale", name)
    /\ inflight' = inflight - 1
    /\ stale' = stale - 1
    /\ UNCHANGED <<ctl, uids, tuned, exec, frames>>

\* the Reset button: reset() without override, then setParams with the controller's
\* params. The effect that depends on params runs again: its cleanup cancels the
\* frame rafRef.current names (the loops it leaves waiting belong to a replaced
\* effect), then the effect builds a new controller and asks for a frame
ResetButton ==
    /\ Dispatchable
    /\ ctl' = SimController(getParams(reset(ctl, <<>>)).value)
    /\ stale' = inflight
    /\ LET left == IF rafRef # 0 THEN cancelAnimationFrame(raf, rafRef) ELSE raf
           old == {[cb EXCEPT !.effect = "replaced"] : cb \in left}
       IN  /\ raf' = requestAnimationFrame(old, "current").pending
           /\ rafRef' = requestAnimationFrame(old, "current").handle
    /\ lastOp' = Op("resetButton", "")
    /\ UNCHANGED <<uids, tuned, aiStatus, inflight, exec>>

AppNext ==
    \/ Frame
    \/ PointerUpRegion \/ PointerUpArrow \/ PointerDownDelete
    \/ ClearForcesButton \/ ClearAnnoButton
    \/ RunAI \/ AIResolve \/ AIReject \/ ExecStep
    \/ AIResolveStale \/ ResetButton

AppSpec == Init /\ [][AppNext]_vars

\* The AI pipeline and the controls that touch aiStatus or the controller it holds.
\* The promise runAIPipeline awaits settles: a suspended call is resumed, with the
\* answer or with the exception; and executeActions, once called, runs its loop to
\* the end
PipelineNext ==
    \/ RunAI \/ AIResolve \/ AIReject \/ ExecStep \/ AIResolveStale
    \/ ClearAnnoButton \/ ResetButton

PipelineSpec ==
    /\ Init /\ [][PipelineNext]_vars
    /\ WF_vars(AIResolve \/ AIReject \/ AIResolveStale)
    /\ WF_vars(ExecStep)

----------------------------------------------------------------------------
(* App.tsx: sketching regions and arrows, with any drag *)

MaxSketchUids == 4   \* identifiers handed out while sketching

\* where a drag begins and where the pointer is released
RegionDrags == {<<P0, Vec(500, 300)>>, <<P0, Vec(460, 300)>>, <<Vec(430, 300), Vec(435, 300)>>}
ArrowDrags ==
    {<<Vec(380, 300), Vec(420, 300)>>, <<Vec(380, 300), Vec(390, 300)>>,
     <<Vec(380, 300), Vec(392, 300)>>, <<Vec(320, 300), Vec(340, 300)>>,
     <<Vec(600, 300), Vec(700, 300)>>, <<Vec(400, 300), Vec(400, 300)>>}

Drag(name, arg, start, p) == Op(name, arg) @@ [start |-> start, p |-> p]

\* onPointerUp in region mode
PointerUpRegionAny ==
    /\ uids < MaxSketchUids
    /\ \E d \in RegionDrags :
          LET start == d[1]
              p == d[2]
              r == clamp(dist(start, p), RADIUS_LO, RADIUS_HI)
          IN  /\ ctl' = addRegionAnnotation(ctl, uid("ann", uids + 1), start, r)
              /\ lastOp' = Drag("pointerUpRegion", uid("ann", uids + 1), start, p)
    /\ uids' = uids + 1
    /\ UNCHANGED <<tuned, app>>

\* onPointerUp in arrow mode
PointerUpArrowAny ==
    /\ uids + 2 <= MaxSketchUids
    /\ \E d \in ArrowDrags :
          LET start == d[1]
              p == d[2]
              v == Vec(p.x - start.x, p.y - start.y)
              L == len(v)
              arrowId == uid("ann", uids + 1)
              withArrow == addArrowAnnotation(ctl, arrowId, start, p)
              strength == clamp((L * 1000) \div 280, 0, 1000)
              mid == Vec((start.x + p.x) \div 2, (start.y + p.y) \div 2)
              chosen == chosenRegion(getAnnotations(withArrow).value, mid)
          IN  IF L < 12
              THEN UNCHANGED <<ctl, uids>> /\ lastOp' = Drag("pointerUpArrow", "short", start, p)
              ELSE /\ ctl' = IF chosen # Null
                             THEN addWind(withArrow, uid("ff", uids + 2), v, strength,
                                          [center |-> chosen.center, radius |-> chosen.radius],
                                          arrowId, chosen.id)
                             ELSE addWind(withArrow, uid("ff", uids + 2), v, strength,
                                          NoRegion, arrowId, Undefined)
                   /\ uids' = uids + 2
                   /\ lastOp' = Drag("pointerUpArrow", arrowId, start, p)
    /\ UNCHANGED <<tuned, app>>

SketchNext == PointerUpRegionAny \/ PointerUpArrowAny

SketchSpec == Init /\ [][SketchNext]_vars

----------------------------------------------------------------------------
(* The physics surface of SimController, called with any numbers *)

GravityInputs == {Vec(0, 900), Vec(50, -100), Vec(0, 300)}
FrictionInputs == {-10, 50, 200}
RestitutionInputs == {-100, 500, 1500}
CountInputs == {-3000, 0, 2500, 250000}
WideOverrides ==
    {<<>>, [restitution |-> 1500], [airFriction |-> 200, ballCount |-> 1],
     [gravity |-> Vec(0, 0)]}

\* history record that keeps the number or vector the method was called with
OpWith(name, input) ==
    [op |-> name, arg |-> "", input |-> input,
     ff |-> Len(ctl.forceFields), ann |-> Len(ctl.annotations)]

SetGravityAny ==
    /\ tuned < MaxCalls
    /\ \E g \in GravityInputs :
          ctl' = setGravity(ctl, g) /\ lastOp' = OpWith("setGravity", g)
    /\ tuned' = tuned + 1
    /\ UNCHANGED <<uids, app>>

SetAirFrictionAny ==
    /\ tuned < MaxCalls
    /\ \E v \in FrictionInputs :
          ctl' = setAirFriction(ctl, v) /\ lastOp' = OpWith("setAirFriction", v)
    /\ tuned' = tuned + 1
    /\ UNCHANGED <<uids, app>>

SetRestitutionAny ==
    /\ tuned < MaxCalls
    /\ \E v \in RestitutionInputs :
          ctl' = setRestitution(ctl, v) /\ lastOp' = OpWith("setRestitution", v)
    /\ tuned' = tuned + 1
    /\ UNCHANGED <<uids, app>>

SpawnBallsAny ==
    /\ tuned < MaxCalls
    /\ \E count \in CountInputs :
          ctl' = spawnBalls(ctl, count) /\ lastOp' = OpWith("spawnBalls", count)
    /\ tuned' = tuned + 1
    /\ UNCHANGED <<uids, app>>

ResetAny ==
    /\ tuned < MaxCalls
    /\ \E o \in WideOverrides :
          ctl' = reset(ctl, o) /\ lastOp' = OpWith("reset", o)
    /\ tuned' = tuned + 1
    /\ UNCHANGED <<uids, app>>

PhysicsNext ==
    \/ SetGravityAny \/ SetAirFrictionAny \/ SetRestitutionAny
    \/ SpawnBallsAny \/ ResetAny \/ Step

PhysicsSpec == Init /\ [][PhysicsNext]_vars

----------------------------------------------------------------------------
(* The registries of SimController, filled with any arguments *)

Disk == [center |-> P0, radius |-> 100]

\* <<direction, strength01, region>>
WindInputs == {<<Vec(3, 4), -500, NoRegion>>, <<Vec(280, 0), 1550, Disk>>}
\* <<center, strength01, region>>
AttractorInputs == {<<P0, 600, Disk>>, <<P1, 2000, NoRegion>>}
\* <<center, strength01, clockwise, region>>
VortexInputs == {<<P0, 650, TRUE, NoRegion>>, <<P0, 1500, FALSE, Disk>>,
                 <<P1, -200, FALSE, NoRegion>>}
RadiusInputs == {5, 100, 900}
\* <<radius, clockwise>>
SpiralInputs == {<<10, TRUE>>, <<500, FALSE>>}
\* where the engine may hold a ball: inside Disk, outside it
PositionInputs == {P0, Vec(700, 500)}
DtInputs == {16, 5000}

AddWindAny ==
    /\ uids < MaxUid
    /\ \E in \in WindInputs :
          /\ ctl' = addWind(ctl, uid("ff", uids + 1), in[1], in[2], in[3], Undefined, Undefined)
          /\ lastOp' = OpWith("addWind", in)
    /\ uids' = uids + 1
    /\ UNCHANGED <<tuned, app>>

AddAttractorAny ==
    /\ uids < MaxUid
    /\ \E in \in AttractorInputs :
          /\ ctl' = addAttractor(ctl, uid("ff", uids + 1), in[1], in[2], in[3],
                                 Undefined, Undefined)
          /\ lastOp' = OpWith("addAttractor", in)
    /\ uids' = uids + 1
    /\ UNCHANGED <<tuned, app>>

AddVortexAny ==
    /\ uids < MaxUid
    /\ \E in \in VortexInputs :
          /\ ctl' = addVortex(ctl, uid("ff", uids + 1), in[1], in[2], in[3], in[4],
                              Undefined, Undefined)
          /\ lastOp' = OpWith("addVortex", in)
    /\ uids' = uids + 1
    /\ UNCHANGED <<tuned, app>>

AddRegionAnnotationAny ==
    /\ uids < MaxUid
    /\ \E radius \in RadiusInputs :
          /\ ctl' = addRegionAnnotation(ctl, uid("ann", uids + 1), P0, radius)
          /\ lastOp' = OpWith("addRegionAnnotation", radius)
    /\ uids' = uids + 1
    /\ UNCHANGED <<tuned, app>>

AddSpiralAnnotationAny ==
    /\ uids < MaxUid
    /\ \E in \in SpiralInputs :
          /\ ctl' = addSpiralAnnotation(ctl, uid("ann", uids + 1), P0, in[1], in[2])
          /\ lastOp' = OpWith("addSpiralAnnotation", in)
    /\ uids' = uids + 1
    /\ UNCHANGED <<tuned, app>>

\* step(dt) with the balls wherever the engine has moved them
StepAny ==
    /\ \E positions \in [DOMAIN ctl.worldState.balls -> PositionInputs], dt \in DtInputs :
          /\ ctl' = step(ctl, dt)
          /\ lastOp' = [op |-> "step", arg |-> "", input |-> dt, positions |-> positions,
                        calls |-> stepCalls(ctl, positions, dt),
                        ff |-> Len(ctl.forceFields), ann |-> Len(ctl.annotations)]
    /\ UNCHANGED <<uids, tuned, app>>

AddMethods ==
    {"addWind", "addAttractor", "addVortex",
     "addRegionAnnotation", "addArrowAnnotation", "addSpiralAnnotation"}

\* what a caller's write into an object it passed does to that object
Overwritten(k, v) == IF k = "region" THEN [v EXCEPT !.radius = 1] ELSE Vec(0, 0)

\* After an add method has returned, its caller writes into one of the objects it
\* passed: the entry just stored changes if it holds that very object.
CallerMutatesArgument ==
    /\ tuned < MaxTuned
    /\ lastOp.op \in AddMethods
    /\ LET reg == IF lastOp.op \in {"addWind", "addAttractor", "addVortex"}
                  THEN "forceFields" ELSE "annotations"
           n == Len(ctl[reg])
           entry == ctl[reg][n]
       IN  \E k \in {"direction", "center", "region", "start", "end"} \cap DOMAIN entry :
              /\ entry[k] \notin {NoVec, NoRegion}
              /\ ctl' = IF k \in sharedWithCaller(lastOp.op)
                        THEN [ctl EXCEPT ![reg][n][k] = Overwritten(k, @)]
                        ELSE ctl
              /\ lastOp' = OpWith("callerMutatesArgument", k)
    /\ tuned' = tuned + 1
    /\ UNCHANGED <<uids, app>>

RegistryNext ==
    \/ AddWindAny \/ AddAttractorAny \/ AddVortexAny
    \/ AddRegionAnnotationAny \/ AddSpiralAnnotationAny \/ AddArrowAnnotation
    \/ CallerMutatesArgument

RegistrySpec == Init /\ [][RegistryNext]_vars

\* force fields are added and the animation loop steps the simulation
StepNext == AddWindAny \/ AddAttractorAny \/ AddVortexAny \/ StepAny

StepSpec == Init /\ [][StepNext]_vars

----------------------------------------------------------------------------
(* Properties of the controller *)

Ids(seq) == {seq[i].id : i \in DOMAIN seq}
Refers(ff, A) == ff.annotationId = A \/ ff.regionAnnotationId = A

\* C1: removeAnnotation(A) removes the annotation with id A and exactly the force
\* fields whose annotationId or regionAnnotationId is A; all other annotations and
\* fields stay, unchanged and in the same order.
C1_CascadingDelete ==
    [][lastOp'.op = "removeAnnotation" =>
        LET A == lastOp'.arg
        IN  /\ ctl'.annotations = SelectSeq(ctl.annotations, LAMBDA a : a.id # A)
            /\ ctl'.forceFields = SelectSeq(ctl.forceFields, LAMBDA ff : ~Refers(ff, A))
            /\ ctl'.params = ctl.params /\ ctl'.worldState = ctl.worldState]_vars

\* a removeAnnotation that removed an annotation and some force fields and kept others
C1_Witness ==
    /\ lastOp.op = "removeAnnotation"
    /\ lastOp.ann > Len(ctl.annotations)
    /\ lastOp.ff > Len(ctl.forceFields)
    /\ Len(ctl.forceFields) >= 1

\* C5 as claimed: removeAnnotation(id) with an id that names no annotation of the
\* registry leaves both registries unchanged.
C5_UnknownIdIsNoOp ==
    [][(lastOp'.op = "removeAnnotation" /\ lastOp'.arg \notin Ids(ctl.annotations))
          => ctl' = ctl]_vars

\* C5 amended: removeAnnotation(id) with an id that names no annotation leaves the
\* annotation registry unchanged and removes exactly the force fields that still
\* refer to id (none when no field does); a second removeAnnotation(id) right
\* after the first changes nothing.
C5_UnknownIdCascadesOnly ==
    [][lastOp'.op = "removeAnnotation" =>
        LET A == lastOp'.arg
        IN  /\ A \notin Ids(ctl.annotations) =>
                /\ ctl'.annotations = ctl.annotations
                /\ ctl'.forceFields = SelectSeq(ctl.forceFields, LAMBDA ff : ~Refers(ff, A))
                /\ ((\A i \in DOMAIN ctl.forceFields : ~Refers(ctl.forceFields[i], A))
                       => ctl' = ctl)
            /\ (lastOp.op = "removeAnnotation" /\ lastOp.arg = A) => ctl' = ctl]_vars

\* a removeAnnotation of an id that named no annotation and still removed fields
C5_Witness ==
    /\ lastOp.op = "removeAnnotation"
    /\ lastOp.ann = Len(ctl.annotations)
    /\ lastOp.ff > Len(ctl.forceFields)
    /\ ctl.annotations # <<>>

\* C6: after reset(), with or without an override, both registries are empty.
C6_ResetEmptiesRegistries ==
    lastOp.op = "reset" => ctl.annotations = <<>> /\ ctl.forceFields = <<>>

\* a reset with an override that started from two non-empty registries
C6_Witness ==
    lastOp.op = "reset" /\ lastOp.arg = "override" /\ lastOp.ff > 0 /\ lastOp.ann > 0

\* C7: clearForces() leaves the force-field registry empty and the annotation
\* registry as it was, and a second clearForces() changes nothing.
C7_ClearForces ==
    [][lastOp'.op = "clearForces" =>
        /\ ctl'.forceFields = <<>>
        /\ ctl'.annotations = ctl.annotations
        /\ ctl'.params = ctl.params /\ ctl'.worldState = ctl.worldState
        /\ lastOp.op = "clearForces" => ctl' = ctl]_vars

\* a clearForces that emptied a non-empty force-field registry next to annotations
C7_Witness ==
    lastOp.op = "clearForces" /\ lastOp.ff > 0 /\ ctl.annotations # <<>>

\* C10: an entry of either registry keeps every field value from its creation to
\* its removal, whatever operation runs.
C10_EntriesImmutable ==
    [][/\ \A i \in DOMAIN ctl.forceFields, j \in DOMAIN ctl'.forceFields :
             ctl.forceFields[i].id = ctl'.forceFields[j].id
                 => ctl.forceFields[i] = ctl'.forceFields[j]
       /\ \A i \in DOMAIN ctl.annotations, j \in DOMAIN ctl'.annotations :
             ctl.annotations[i].id = ctl'.annotations[j].id
                 => ctl.annotations[i] = ctl'.annotations[j]]_vars

\* a cascade that removed a region annotation and left a field behind
C10_Witness ==
    /\ lastOp.op = "removeAnnotation"
    /\ lastOp.ann > Len(ctl.annotations)
    /\ \E i \in DOMAIN ctl.forceFields : ctl.forceFields[i].type = "attractor"

\* C4 as claimed: writing into a value returned by getAnnotations, getForceFields,
\* getParams or getWorldState never changes the controller.
C4_AccessorsIndependent ==
    [][lastOp'.op = "callerMutates" => ctl' = ctl]_vars

----------------------------------------------------------------------------
(* Properties of the AI pipeline *)

\* C2 as claimed: an add_wind, add_attractor or add_vortex action whose
\* regionAnnotationId names no region annotation of the registry at the moment the
\* action executes creates a field with no region and no regionAnnotationId.
C2_ResolvedWhenActionExecutes ==
    [][(/\ lastOp'.op = "exec"
        /\ Head(exec.queue).type \in AddTypes
        /\ Head(exec.queue).regionAnnotationId # Undefined
        /\ \A i \in DOMAIN ctl.annotations :
              ~(/\ ctl.annotations[i].id = Head(exec.queue).regionAnnotationId
                /\ ctl.annotations[i].type = "region"))
          => LET made == ctl'.forceFields[Len(ctl'.forceFields)]
             IN  made.region = NoRegion /\ made.regionAnnotationId = Undefined]_vars

\* C3: no frame's step runs while a batch of executeActions is partly applied.
C3_BatchAtomicForFrames ==
    [][lastOp'.op = "frame" => ~InBatch]_vars

\* a batch with one action applied and another still to run
C3_Witness ==
    InBatch /\ lastOp.op = "exec" /\ ctl.forceFields # <<>>

\* The responses the specification calls structurally valid: an object with string
\* prediction and explanation and an array of actions, each an object of a known
\* type with the fields of that type.
KnownTypes ==
    {"set_param", "spawn_balls", "clear_forces", "clear_annotations"} \cup AddTypes

WellFormedAction(a) ==
    /\ a.t = "object"
    /\ "type" \in DOMAIN a.f
    /\ a.f.type.t = "string"
    /\ a.f.type.v \in KnownTypes
    /\ a.f.type.v = "set_param" =>
          /\ {"key", "value"} \subseteq DOMAIN a.f
          /\ a.f.key \in {JStr("gravityY"), JStr("airFriction"), JStr("restitution")}
          /\ a.f.value.t = "number"
    /\ a.f.type.v = "spawn_balls" => "count" \in DOMAIN a.f /\ a.f.count.t = "number"
    /\ a.f.type.v = "add_wind" =>
          /\ {"direction", "strength"} \subseteq DOMAIN a.f
          /\ isVec2(a.f.direction) /\ a.f.strength.t = "number"
    /\ a.f.type.v \in {"add_attractor", "add_vortex"} =>
          /\ {"center", "strength"} \subseteq DOMAIN a.f
          /\ isVec2(a.f.center) /\ a.f.strength.t = "number"
    /\ a.f.type.v = "add_vortex" =>
          "clockwise" \in DOMAIN a.f /\ a.f.clockwise.t = "boolean"

WellFormed(raw) ==
    /\ raw.t = "object"
    /\ {"prediction", "explanation", "actions"} \subseteq DOMAIN raw.f
    /\ raw.f.prediction.t = "string" /\ raw.f.explanation.t = "string"
    /\ raw.f.actions.t = "array"
    /\ \A i \in DOMAIN raw.f.actions.v : WellFormedAction(raw.f.actions.v[i])

\* C8: a response that is not structurally valid ends in the error state with the
\* controller as it was and no action of it queued for execution, and every action
\* that executeActions runs comes from a structurally valid response.
C8_InvalidResponseRejectedWhole ==
    [][/\ (lastOp'.op = "aiResponse" /\ ~WellFormed(Responses[lastOp'.arg]))
            => ctl' = ctl /\ exec'.queue = <<>> /\ aiStatus' = "error"
       /\ lastOp'.op = "exec" => WellFormed(Responses[exec.from])]_vars

\* a response rejected for its second action, its first being well formed, while
\* both registries held entries
C8_Witness ==
    /\ lastOp.op = "aiResponse" /\ lastOp.arg = "spawnThenBad"
    /\ aiStatus = "error"
    /\ ctl.annotations # <<>> /\ ctl.forceFields # <<>>

----------------------------------------------------------------------------
(* Properties of the physics surface *)

\* C12 as claimed: after setGravity the stored gravity.y is within [0, 0.8], after
\* setAirFriction the stored airFriction is within [0, 0.08], after setRestitution
\* the stored restitution is within [0, 1], whatever value was passed.
C12_SettersClamp ==
    /\ lastOp.op = "setGravity" => ctl.params.gravity.y \in 0..GRAVITY_Y_HI
    /\ lastOp.op = "setAirFriction" => ctl.params.airFriction \in 0..AIR_FRICTION_HI
    /\ lastOp.op = "setRestitution" => ctl.params.restitution \in 0..RESTITUTION_HI

\* C13: the engine's gravity is params.gravity, and every ball of worldState.balls
\* has frictionAir params.airFriction and restitution params.restitution.
C13_WorldAgreesWithParams ==
    /\ ctl.worldState.engine.gravity = ctl.params.gravity
    /\ \A i \in DOMAIN ctl.worldState.balls :
          /\ ctl.worldState.balls[i].frictionAir = ctl.params.airFriction
          /\ ctl.worldState.balls[i].restitution = ctl.params.restitution

\* balls spawned after setters moved both numbers away from their defaults
C13_Witness ==
    /\ lastOp.op = "spawnBalls"
    /\ ctl.params.airFriction # DEFAULT_PARAMS.airFriction
    /\ ctl.params.restitution # DEFAULT_PARAMS.restitution
    /\ Len(ctl.worldState.balls) > InitBallCount

\* C14 as claimed: in every state the stored airFriction is within [0, 0.08] and the
\* stored restitution within [0, 1].
C14_StoredInRange ==
    /\ ctl.params.airFriction \in 0..AIR_FRICTION_HI
    /\ ctl.params.restitution \in 0..RESTITUTION_HI

\* C19: spawnBalls(count), count a finite number, appends to worldState.balls, after
\* the balls that were there, as many balls as the whole part of count, at least 1
\* and at most 200; each of them is a new body and is in the engine's world, which
\* keeps the bodies it had.
C19_SpawnBallsCount ==
    [][lastOp'.op = "spawnBalls" =>
        LET count == lastOp'.input
            n == IF count < 1000 THEN 1
                 ELSE IF count >= 200000 THEN 200
                 ELSE CHOOSE k \in 1..200 : k * 1000 <= count /\ count < (k + 1) * 1000
            old == ctl.worldState.balls
            new == ctl'.worldState.balls
        IN  /\ Len(new) = Len(old) + n
            /\ SubSeq(new, 1, Len(old)) = old
            /\ ctl.worldState.world \subseteq ctl'.worldState.world
            /\ \A i \in (Len(old) + 1)..Len(new) :
                  /\ new[i].id \in ctl'.worldState.world
                  /\ new[i].id \notin ctl.worldState.world
                  /\ \A j \in (Len(old) + 1)..Len(new) : new[i].id = new[j].id => i = j]_vars

\* spawnBalls(2.5) called on a world that already held spawned balls
C19_Witness ==
    /\ lastOp.op = "spawnBalls" /\ lastOp.input = 2500
    /\ Len(ctl.worldState.balls) > InitBallCount + 2

----------------------------------------------------------------------------
(* Properties of the registries under any arguments *)

Last(seq) == seq[Len(seq)]

\* C11: after an add method has returned, a write by the caller into the Vec2 or
\* RegionCircle object it passed changes no stored entry (and so no later force).
C11_EntriesDoNotAliasArguments ==
    [][lastOp'.op = "callerMutatesArgument" => ctl' = ctl]_vars

C18_RadiusClamped ==
    \A i \in DOMAIN ctl.annotations :
        LET a == ctl.annotations[i]
        IN  a.type \in {"region", "spiral"} => a.radius >= 20 /\ a.radius <= 450

\* a region created with radius 5 and a spiral created with radius 500 are stored
C18_Witness ==
    /\ lastOp.op = "addSpiralAnnotation" /\ lastOp.input[1] = 500
    /\ Last(ctl.annotations).radius = 450
    /\ \E i \in DOMAIN ctl.annotations :
          ctl.annotations[i].type = "region" /\ ctl.annotations[i].radius = 20

\* C20: the calls of one step are the force submissions followed by exactly one
\* integration call, which is the last call; a ball and a force field have exactly
\* one submission if the field has no region or its region contains the position of
\* the ball, and none otherwise.
C20_ForcesThenIntegrate ==
    [][lastOp'.op = "step" =>
         LET calls == lastOp'.calls
             n == Len(calls)
             balls == ctl.worldState.balls
             contains(f, p) ==
                 \/ f.region = NoRegion
                 \/ (p.x - f.region.center.x) * (p.x - f.region.center.x)
                      + (p.y - f.region.center.y) * (p.y - f.region.center.y)
                    <= f.region.radius * f.region.radius
             submitted(b, f) ==
                 {k \in 1..n : /\ calls[k].call = "applyForce"
                               /\ calls[k].body = b.id /\ calls[k].field = f.id}
         IN  /\ n >= 1
             /\ calls[n].call = "update"
             /\ \A k \in 1..(n - 1) : calls[k].call = "applyForce"
             /\ \A i \in DOMAIN balls : \A j \in DOMAIN ctl.forceFields :
                   Cardinality(submitted(balls[i], ctl.forceFields[j]))
                     = IF contains(ctl.forceFields[j], lastOp'.positions[i]) THEN 1 ELSE 0
             /\ n - 1 = Cardinality({<<i, j>> \in (DOMAIN balls) \X (DOMAIN ctl.forceFields) :
                                        contains(ctl.forceFields[j], lastOp'.positions[i])})
      ]_vars

\* a step with a ball inside and a ball outside the region of a field, and a field
\* without region: forces were submitted for some pairs and not for others
C20_Witness ==
    /\ lastOp.op = "step"
    /\ \E i, j \in DOMAIN lastOp.positions :
          lastOp.positions[i] = P0 /\ lastOp.positions[j] # P0
    /\ \E i, j \in DOMAIN ctl.forceFields :
          ctl.forceFields[i].region = NoRegion /\ ctl.forceFields[j].region # NoRegion
    /\ Len(lastOp.calls) > 2
    /\ Len(lastOp.calls) - 1 < Len(ctl.worldState.balls) * Len(ctl.forceFields)

----------------------------------------------------------------------------
(* Properties of the controls of the App *)

\* C15: after the Reset button has been pressed, whatever slider changes, presets
\* and AI set_param actions came before, the params of the live controller are
\* DEFAULT_PARAMS (with the ball count the controllers here are built with).
C15_ResetRestoresDefaults ==
    [][lastOp'.op = "resetButton"
          => ctl'.params = [DEFAULT_PARAMS EXCEPT !.ballCount = InitBallCount]]_vars

\* C16: after the Clear Anno. button or a clear_annotations AI action, the
\* annotation registry is empty, every force field that referred to one of the
\* removed annotations by annotationId or regionAnnotationId is gone, and every
\* force field with neither reference set remains.
C16_ClearAnnotations ==
    [][(\/ lastOp'.op = "clearAnno"
        \/ lastOp'.op = "exec" /\ lastOp'.arg = "clear_annotations") =>
          LET removed == Ids(ctl.annotations)
          IN  /\ ctl'.annotations = <<>>
              /\ \A i \in DOMAIN ctl.forceFields :
                    LET f == ctl.forceFields[i]
                    IN  /\ (\E A \in removed : Refers(f, A))
                            => f.id \notin Ids(ctl'.forceFields)
                        /\ (f.annotationId = Undefined /\ f.regionAnnotationId = Undefined)
                            => \E j \in DOMAIN ctl'.forceFields : ctl'.forceFields[j] = f
      ]_vars

\* annotations were cleared while one force field referred to one of them and
\* another had no reference: the first is gone, the second is still there
C16_Witness ==
    /\ lastOp.op = "clearAnno" \/ (lastOp.op = "exec" /\ lastOp.arg = "clear_annotations")
    /\ lastOp.ann > 0
    /\ ctl.annotations = <<>>
    /\ lastOp.ff > Len(ctl.forceFields)
    /\ \E i \in DOMAIN ctl.forceFields :
          /\ ctl.forceFields[i].annotationId = Undefined
          /\ ctl.forceFields[i].regionAnnotationId = Undefined

----------------------------------------------------------------------------
(* Properties of step *)

\* C21: whatever dt is passed to step, the time step handed to the engine's
\* integration is min(dt, 33), so at most 33 ms, and the step ends with that
\* integration call: it reports nothing else, however large dt is.
C21_TimestepBounded ==
    [][lastOp'.op = "step" =>
         LET calls == lastOp'.calls
             update == calls[Len(calls)]
         IN  /\ update.call = "update"
             /\ update.dt <= 33
             /\ update.dt = IF lastOp'.input <= 33 THEN lastOp'.input ELSE 33
             /\ \A k \in DOMAIN calls : calls[k].call \in {"applyForce", "update"}
      ]_vars

\* a step of 5000 ms that integrated 33 ms, and one of 16 ms would integrate 16
C21_Witness ==
    /\ lastOp.op = "step"
    /\ lastOp.input = 5000
    /\ lastOp.calls[Len(lastOp.calls)].dt = 33
    /\ ctl.forceFields # <<>>

\* C22: a force field of any type that has a region submits, in a step, no force
\* to a ball whose position is strictly outside the circle of that region.
C22_ScopeIsolation ==
    [][lastOp'.op = "step" =>
         \A i \in DOMAIN ctl.worldState.balls : \A j \in DOMAIN ctl.forceFields :
            LET f == ctl.forceFields[j]
                p == lastOp'.positions[i]
                dx == p.x - f.region.center.x
                dy == p.y - f.region.center.y
            IN  (f.region # NoRegion /\ dx * dx + dy * dy > f.region.radius * f.region.radius)
                   => \A k \in DOMAIN lastOp'.calls :
                         ~(/\ lastOp'.calls[k].call = "applyForce"
                           /\ lastOp'.calls[k].body = ctl.worldState.balls[i].id
                           /\ lastOp'.calls[k].field = f.id)
      ]_vars

\* a step with a wind, an attractor and a vortex that all have a region, one ball
\* outside it and one inside: only the ball inside received forces
C22_Witness ==
    /\ lastOp.op = "step"
    /\ \A t \in {"wind", "attractor", "vortex"} :
          \E j \in DOMAIN ctl.forceFields :
             ctl.forceFields[j].type = t /\ ctl.forceFields[j].region # NoRegion
    /\ \E i, j \in DOMAIN lastOp.positions :
          lastOp.positions[i] = P0 /\ lastOp.positions[j] = Vec(700, 500)
    /\ Len(lastOp.calls) = 4

----------------------------------------------------------------------------
(* The force of one field on one ball: insideRegion and the three branches of *)
(* applyForceFields, applied to fields as the add methods store them          *)

Origin == Vec(0, 0)

\* a point and a region for insideRegion: centre, inside, on the circle, one pixel
\* outside, far away
PointInputs ==
    {P0, Vec(430, 340), Vec(500, 300), Vec(460, 380), Vec(501, 300), Vec(461, 380),
     Vec(100, 120), Vec(100, 121), Vec(800, 600)}
RegionInputs == {NoRegion, Disk, [center |-> P1, radius |-> 20]}

\* ball positions: at centre P0, 50 and 500 away from it, 1000 away from Origin
ForcePositions == {P0, Vec(430, 340), Vec(700, 700), Vec(800, 600)}
CenterInputs == {P0, Origin}
StrengthInputs == {-200, 0, 650, 1500}
DirectionInputs == {Vec(1, 0), Vec(3, 4), Vec(0, -5), Vec(0, 0)}

\* the fields the add methods store for these arguments, each with its arguments
StoredFields(c) ==
    {[method |-> "addWind", direction |-> d, strength |-> s, region |-> r,
      field |-> Last(addWind(c, uid("ff", 1), d, s, r, Undefined, Undefined).forceFields)] :
        d \in DirectionInputs, s \in {-500, 500, 1550}, r \in {NoRegion, Disk}}
    \cup
    {[method |-> "addAttractor", center |-> ctr, strength |-> s, region |-> r,
      field |-> Last(addAttractor(c, uid("ff", 1), ctr, s, r, Undefined, Undefined).forceFields)] :
        ctr \in CenterInputs, s \in StrengthInputs, r \in {NoRegion}}
    \cup
    {[method |-> "addVortex", center |-> ctr, strength |-> s, clockwise |-> cw, region |-> r,
      field |-> Last(addVortex(c, uid("ff", 1), ctr, s, cw, r,
                               Undefined, Undefined).forceFields)] :
        ctr \in CenterInputs, s \in StrengthInputs, cw \in BOOLEAN, r \in {NoRegion}}

\* insideRegion(p, region)
InsideRegion ==
    /\ \E p \in PointInputs, region \in RegionInputs :
          lastOp' = [op |-> "insideRegion", p |-> p, region |-> region,
                     result |-> insideRegion(p, region)]
    /\ UNCHANGED <<ctl, uids, tuned, app>>

\* one round of the inner loop of applyForceFields that reaches applyForce
ApplyForce ==
    /\ \E made \in StoredFields(ctl), p \in ForcePositions :
          /\ submitsForce(made.field, p)
          /\ lastOp' = [op |-> "applyForce", made |-> made, p |-> p,
                        force |-> fieldForce(made.field, p),
                        dist |-> CASE made.field.type = "attractor" -> attractorDist(made.field, p)
                                   [] made.field.type = "vortex" -> vortexDist(made.field, p)
                                   [] OTHER -> 0]
    /\ UNCHANGED <<ctl, uids, tuned, app>>

\* the same ball under a vortex created clockwise and under one created
\* counter-clockwise with the same center and strength
VortexPair ==
    /\ \E ctr \in CenterInputs, s \in StrengthInputs, p \in ForcePositions :
          LET made(cw) == Last(addVortex(ctl, uid("ff", 1), ctr, s, cw, NoRegion,
                                         Undefined, Undefined).forceFields)
          IN  lastOp' = [op |-> "vortexPair", center |-> ctr, strength |-> s, p |-> p,
                         clockwise |-> fieldForce(made(TRUE), p),
                         counter |-> fieldForce(made(FALSE), p)]
    /\ UNCHANGED <<ctl, uids, tuned, app>>

ForceNext == InsideRegion \/ ApplyForce \/ VortexPair

ForceSpec == Init /\ [][ForceNext]_vars

\* C23: insideRegion(p, region) is true when region is absent, and otherwise exactly
\* when the squared distance from p to region.center is at most region.radius
\* squared; a point exactly at distance radius from the center is inside.
C23_InsideRegion ==
    [][lastOp'.op = "insideRegion" =>
         LET p == lastOp'.p
             r == lastOp'.region
             d2 == (p.x - r.center.x) * (p.x - r.center.x)
                     + (p.y - r.center.y) * (p.y - r.center.y)
         IN  IF r = NoRegion THEN lastOp'.result
             ELSE /\ lastOp'.result <=> d2 <= r.radius * r.radius
                  /\ d2 = r.radius * r.radius => lastOp'.result
      ]_vars

\* the point (460, 380), exactly 100 away from the center of Disk, is inside it
C23_Witness ==
    /\ lastOp.op = "insideRegion"
    /\ lastOp.region = Disk /\ lastOp.p = Vec(460, 380)
    /\ lastOp.result

\* C24: for every center, strength and ball position, the force of a vortex created
\* clockwise is the exact negation of the force of a vortex created counter-clockwise
\* with the same center and strength, also for strength 0 and a ball at the center.
C24_VortexSymmetry ==
    [][lastOp'.op = "vortexPair" =>
         /\ lastOp'.clockwise.x = -lastOp'.counter.x
         /\ lastOp'.clockwise.y = -lastOp'.counter.y
      ]_vars

\* a pair of vortices of strength 0.65 whose forces on a ball 50 away are not zero
C24_Witness ==
    /\ lastOp.op = "vortexPair"
    /\ lastOp.strength = 650 /\ lastOp.center = P0 /\ lastOp.p = Vec(430, 340)
    /\ lastOp.clockwise # Origin
    /\ lastOp.clockwise.x = -lastOp.counter.x

\* C25: the distance the attractor force divides by is within [30, 800] and the one
\* the vortex force divides by within [40, 900], for every ball position; the force
\* is finite, also for a ball exactly at the center.
C25_DistanceClamped ==
    [][lastOp'.op = "applyForce" =>
         LET type == lastOp'.made.field.type
         IN  /\ type = "attractor" => lastOp'.dist >= 30 /\ lastOp'.dist <= 800
             /\ type = "vortex" => lastOp'.dist >= 40 /\ lastOp'.dist <= 900
             /\ type \in {"attractor", "vortex"}
                   => isFinite(lastOp'.force.x) /\ isFinite(lastOp'.force.y)
      ]_vars

\* an attractor of non-zero strength applied to a ball exactly at its center
C25_Witness ==
    /\ lastOp.op = "applyForce"
    /\ lastOp.made.method = "addAttractor"
    /\ lastOp.made.field.strength > 0
    /\ lastOp.p = lastOp.made.center
    /\ lastOp.dist = 30
    /\ lastOp.force = Origin

\* C26: a global wind field submits to a ball the force direction * strength *
\* WIND_SCALE, whatever the position of the ball; a wind created from the zero
\* direction has the zero direction and submits the zero force.
C26_WindForce ==
    [][(lastOp'.op = "applyForce" /\ lastOp'.made.method = "addWind"
           /\ lastOp'.made.region = NoRegion) =>
         LET f == lastOp'.made.field
         IN  /\ lastOp'.force = Vec(f.direction.x * f.strength * 35,
                                    f.direction.y * f.strength * 35)
             /\ lastOp'.made.direction = Origin
                   => f.direction = Origin /\ lastOp'.force = Origin
             /\ (lastOp'.made.direction = Vec(1, 0) /\ lastOp'.made.strength = 500)
                   => lastOp'.force = Vec(500 * 1000 * 35, 0)
      ]_vars

\* addWind({x:1, y:0}, 0.5) without region, applied to a ball: (0.5 * WIND_SCALE, 0)
C26_Witness ==
    /\ lastOp.op = "applyForce"
    /\ lastOp.made.method = "addWind"
    /\ lastOp.made.direction = Vec(1, 0) /\ lastOp.made.strength = 500
    /\ lastOp.made.region = NoRegion
    /\ lastOp.force = Vec(17500000, 0)

----------------------------------------------------------------------------
(* validateResponse applied to raw responses *)

\* elements of raw.actions: values below, inside and above each range, a count
\* with a fraction, and two elements that validateResponse refuses
RawActions ==
    {JAction("set_param", [key |-> JStr("gravityY"), value |-> JNum(900)]),
     JAction("set_param", [key |-> JStr("gravityY"), value |-> JNum(-100)]),
     JAction("set_param", [key |-> JStr("airFriction"), value |-> JNum(200)]),
     JAction("set_param", [key |-> JStr("restitution"), value |-> JNum(1500)]),
     JAction("set_param", [key |-> JStr("restitution"), value |-> JNum(500)]),
     JAction("spawn_balls", [count |-> JNum(0)]),
     JAction("spawn_balls", [count |-> JNum(2500)]),
     JAction("spawn_balls", [count |-> JNum(250700)]),
     JObj([type |-> JStr("clear_forces")]),
     JObj([type |-> JStr("clear_annotations")]),
     JAction("add_wind", [direction |-> JVec(1, 0), strength |-> JNum(-500)]),
     JAction("add_attractor", [center |-> JVec(400, 300), strength |-> JNum(600)]),
     JAction("add_vortex", [center |-> JVec(400, 300), strength |-> JNum(1500),
                            clockwise |-> JBool(FALSE)]),
     JObj([type |-> JStr("spawn_balls")]),
     JObj([type |-> JStr("explode")])}

RawResponses ==
    {JStr("I cannot help with that"), JResponse(<<>>)}
    \cup {JResponse(<<a>>) : a \in RawActions}
    \cup {JResponse(<<a, b>>) : a \in RawActions, b \in RawActions}

ValidateRaw ==
    /\ \E raw \in RawResponses :
          lastOp' = [op |-> "validateResponse", raw |-> raw, result |-> validateResponse(raw)]
    /\ UNCHANGED <<ctl, uids, tuned, app>>

ValidateNext == ValidateRaw

ValidateSpec == Init /\ [][ValidateNext]_vars

\* C27: every action of a response that validateResponse accepts is range-checked:
\* a set_param value is in [0, 0.8] for gravityY, [0, 0.08] for airFriction and
\* [0, 1] for restitution, a spawn_balls count is a whole number in [1, 200], the
\* strength of add_wind, add_attractor and add_vortex is in [0, 1]; the accepted
\* actions are those of the raw response, in the same order.
C27_AcceptedActionsRangeChecked ==
    [][(lastOp'.op = "validateResponse" /\ lastOp'.result.ok) =>
         LET actions == lastOp'.result.value.actions
             raw == lastOp'.raw.f.actions.v
         IN  /\ Len(actions) = Len(raw)
             /\ \A i \in DOMAIN actions :
                   LET a == actions[i]
                   IN  /\ a.type = raw[i].f.type.v
                       /\ a.type = "set_param" =>
                             /\ a.key = raw[i].f.key.v
                             /\ a.key = "gravityY" => a.value >= 0 /\ a.value <= 800
                             /\ a.key = "airFriction" => a.value >= 0 /\ a.value <= 80
                             /\ a.key = "restitution" => a.value >= 0 /\ a.value <= 1000
                       /\ a.type = "spawn_balls" => a.count \in 1..200
                       /\ a.type \in {"add_wind", "add_attractor", "add_vortex"}
                             => a.strength >= 0 /\ a.strength <= 1000
      ]_vars

\* an accepted response whose gravityY 0.9 became 0.8 and whose count 250.7
\* became 200
C27_Witness ==
    /\ lastOp.op = "validateResponse"
    /\ lastOp.result.ok
    /\ Len(lastOp.raw.f.actions.v) = 2
    /\ lastOp.raw.f.actions.v[1].f.type.v = "set_param"
    /\ lastOp.raw.f.actions.v[1].f.value.v = 900
    /\ lastOp.result.value.actions =
          <<[type |-> "set_param", key |-> "gravityY", value |-> 800],
            [type |-> "spawn_balls", count |-> 200]>>

----------------------------------------------------------------------------
(* Frame properties of the registries *)

\* C28: each add method grows exactly one registry by exactly one entry, appended
\* after the existing entries, and returns the id of that entry: addWind,
\* addAttractor and addVortex leave the annotations and the existing force fields
\* unchanged; addRegionAnnotation, addArrowAnnotation and addSpiralAnnotation leave
\* the force fields and the existing annotations unchanged.
C28_AddAppendsOneEntry ==
    [][/\ lastOp'.op \in {"addWind", "addAttractor", "addVortex"} =>
            /\ Len(ctl'.forceFields) = Len(ctl.forceFields) + 1
            /\ SubSeq(ctl'.forceFields, 1, Len(ctl.forceFields)) = ctl.forceFields
            /\ ctl'.forceFields[Len(ctl'.forceFields)].id = lastOp'.arg
            /\ ctl'.annotations = ctl.annotations
       /\ lastOp'.op \in {"addRegionAnnotation", "addArrowAnnotation", "addSpiralAnnotation"} =>
            /\ Len(ctl'.annotations) = Len(ctl.annotations) + 1
            /\ SubSeq(ctl'.annotations, 1, Len(ctl.annotations)) = ctl.annotations
            /\ ctl'.annotations[Len(ctl'.annotations)].id = lastOp'.arg
            /\ ctl'.forceFields = ctl.forceFields
      ]_vars

\* an attractor added to a controller that already held a force field and an
\* annotation
C28_Witness ==
    /\ lastOp.op = "addAttractor"
    /\ lastOp.ff = 1 /\ lastOp.ann = 1
    /\ Len(ctl.forceFields) = 2 /\ Len(ctl.annotations) = 1
    /\ ctl.forceFields[2].id = lastOp.arg

\* C29: step, setGravity, setAirFriction, setRestitution, spawnBalls and the read
\* accessors (with whatever their caller then writes into the value returned) leave
\* both registries exactly unchanged, and no operation other than removeAnnotation
\* and reset removes an annotation.
C29_OnlyRemovalsRemove ==
    [][/\ lastOp'.op \in {"step", "setGravity", "setAirFriction", "setRestitution",
                          "spawnBalls", "callerMutates"} =>
            /\ ctl'.forceFields = ctl.forceFields
            /\ ctl'.annotations = ctl.annotations
       /\ lastOp'.op \notin {"removeAnnotation", "reset"} =>
            \A i \in DOMAIN ctl.annotations :
               \E j \in DOMAIN ctl'.annotations : ctl'.annotations[j] = ctl.annotations[i]
      ]_vars

\* a step taken with entries in both registries
C29_Witness ==
    /\ lastOp.op = "step"
    /\ lastOp.ff > 0 /\ lastOp.ann > 0
    /\ Len(ctl.forceFields) = lastOp.ff /\ Len(ctl.annotations) = lastOp.ann

----------------------------------------------------------------------------
(* Properties of the AI pipeline across controller replacement *)

\* C30: when an AI response arrives and is accepted, its actions are applied to the
\* controller that is live at that moment: executeActions starts on the live
\* controller with exactly those actions, so no accepted batch is lost on a
\* controller that was replaced while the request was in flight.
C30_BatchAppliedToLiveController ==
    [][(/\ lastOp'.op \in {"aiResponse", "aiResponseStale"}
        /\ Validated[lastOp'.arg].ok
        /\ Validated[lastOp'.arg].value.actions # <<>>)
          => exec'.queue = Validated[lastOp'.arg].value.actions
      ]_vars

----------------------------------------------------------------------------
(* Properties of the back-references and of the AI request *)

\* C31: in every state reachable through the UI handlers and executeActions, each
\* force field's annotationId and regionAnnotationId, when set, is the id of an
\* annotation that is in the registry: no field refers to a removed annotation.
C31_NoDanglingBackReference ==
    \A i \in DOMAIN ctl.forceFields :
       LET ff == ctl.forceFields[i]
       IN  /\ ff.annotationId # Undefined => ff.annotationId \in Ids(ctl.annotations)
           /\ ff.regionAnnotationId # Undefined =>
                 ff.regionAnnotationId \in Ids(ctl.annotations)

\* C32: at most one AI request is in flight at any time, whatever controls are
\* used while a request started by Run has not completed.
C32_OneRequestInFlight == inflight <= 1

\* C34: every force field whose regionAnnotationId names a region annotation that
\* is in the registry has, as its region, the circle with that annotation's center
\* and radius.
C34_RegionMatchesAnnotation ==
    \A i \in DOMAIN ctl.forceFields : \A j \in DOMAIN ctl.annotations :
       LET ff == ctl.forceFields[i]
           a == ctl.annotations[j]
       IN  (a.type = "region" /\ ff.regionAnnotationId = a.id)
              => ff.region = [center |-> a.center, radius |-> a.radius]

\* an arrow was drawn with its midpoint inside a region: its wind names the region
C34_Witness ==
    /\ lastOp.op = "pointerUpArrow"
    /\ \E i \in DOMAIN ctl.forceFields : \E j \in DOMAIN ctl.annotations :
          /\ ctl.annotations[j].type = "region"
          /\ ctl.forceFields[i].regionAnnotationId = ctl.annotations[j].id
          /\ ctl.forceFields[i].annotationId = lastOp.arg
          /\ ctl.forceFields[i].region # NoRegion

\* C37: when an add_wind, add_attractor or add_vortex action carries a
\* regionAnnotationId that names an annotation which is not a region (an arrow or a
\* spiral), executeActions creates the field with no region and no
\* regionAnnotationId; a field without back-references stays when an annotation is
\* removed, so removing that arrow or spiral later does not remove the field.
C37_NonRegionIdGivesGlobalField ==
    [][/\ (/\ lastOp'.op = "exec"
           /\ exec.queue # <<>>
           /\ Head(exec.queue).type \in AddTypes
           /\ \E j \in DOMAIN exec.annotations :
                 /\ exec.annotations[j].id = Head(exec.queue).regionAnnotationId
                 /\ exec.annotations[j].type # "region")
          => /\ Len(ctl'.forceFields) = Len(ctl.forceFields) + 1
             /\ Last(ctl'.forceFields).region = NoRegion
             /\ Last(ctl'.forceFields).regionAnnotationId = Undefined
             /\ Last(ctl'.forceFields).annotationId = Undefined
       /\ lastOp'.op = "removeAnnotation" =>
             \A i \in DOMAIN ctl.forceFields :
                (/\ ctl.forceFields[i].annotationId = Undefined
                 /\ ctl.forceFields[i].regionAnnotationId = Undefined)
                   => \E k \in DOMAIN ctl'.forceFields :
                         ctl'.forceFields[k] = ctl.forceFields[i]
      ]_vars

\* the arrow ann_1 was named by an add_vortex action and has now been removed: its
\* own wind went with it, the vortex is still there and is global
C37_Witness ==
    /\ lastOp.op = "removeAnnotation"
    /\ lastOp.arg = uid("ann", 1)
    /\ lastOp.ff = 2
    /\ Len(ctl.forceFields) = 1
    /\ ctl.forceFields[1].type = "vortex"
    /\ ctl.forceFields[1].id = uid("ff", 3)
    /\ ctl.forceFields[1].region = NoRegion
    /\ ctl.forceFields[1].regionAnnotationId = Undefined

----------------------------------------------------------------------------
(* Properties of the frame loop *)

\* C36: at most one frame loop is scheduled at any time; each animation frame calls
\* step exactly once, on the live controller; and once a parameter change has
\* replaced the controller, no loop of the replaced effect is left to run, so the
\* replaced controller is never stepped again.
C36_SingleFrameLoop ==
    /\ [](Cardinality(raf) <= 1)
    /\ [](\A cb \in raf : cb.effect = "current" /\ cb.handle = rafRef)
    /\ [][lastOp'.op = "frame" => (lastOp'.steps = 1 /\ ctl' = step(ctl, 16))]_vars

\* a frame ran after the controller had been replaced under a pending request
C36_Witness ==
    /\ lastOp.op = "frame"
    /\ lastOp.steps = 1
    /\ stale > 0
    /\ Cardinality(raf) = 1

----------------------------------------------------------------------------
(* Progress of the AI pipeline *)

\* C35: every run of the AI pipeline that sets aiStatus to "thinking" eventually
\* sets it to "ok" or to "error", provided the promise it awaits settles: the status
\* is never left at "thinking" for ever.
C35_ThinkingEnds == (aiStatus = "thinking") ~> (aiStatus \in {"ok", "error"})

\* a run that set "thinking" has come to its end, by either branch
C35_Witness ==
    /\ lastOp.op \in {"aiResponse", "aiError", "exec"}
    /\ aiStatus \in {"ok", "error"}
    /\ inflight = 0

----------------------------------------------------------------------------
(* Properties of the arrow drag *)

\* C33: a completed arrow drag of length 12 or more adds exactly one arrow
\* annotation and exactly one wind field whose annotationId is that arrow's id; if
\* the arrow's midpoint lies inside one or more region annotations, the wind's region
\* is the circle of a region of smallest radius among them and its
\* regionAnnotationId is that region's id, otherwise the wind is global; a drag
\* shorter than 12 adds neither.
C33_ArrowDragMakesWind ==
    [][(lastOp'.op = "pointerUpArrow" /\ "start" \in DOMAIN lastOp') =>
         LET start == lastOp'.start
             p == lastOp'.p
             dx == p.x - start.x
             dy == p.y - start.y
             inside(a) == /\ a.type = "region"
                          /\ (start.x + p.x - 2 * a.center.x) * (start.x + p.x - 2 * a.center.x)
                               + (start.y + p.y - 2 * a.center.y) * (start.y + p.y - 2 * a.center.y)
                             <= 4 * a.radius * a.radius
             holding == {j \in DOMAIN ctl.annotations : inside(ctl.annotations[j])}
             arrow == Last(ctl'.annotations)
             wind == Last(ctl'.forceFields)
         IN  IF dx * dx + dy * dy >= 12 * 12
             THEN /\ Len(ctl'.annotations) = Len(ctl.annotations) + 1
                  /\ SubSeq(ctl'.annotations, 1, Len(ctl.annotations)) = ctl.annotations
                  /\ arrow.type = "arrow" /\ arrow.start = start /\ arrow.end = p
                  /\ Len(ctl'.forceFields) = Len(ctl.forceFields) + 1
                  /\ SubSeq(ctl'.forceFields, 1, Len(ctl.forceFields)) = ctl.forceFields
                  /\ wind.type = "wind" /\ wind.annotationId = arrow.id
                  /\ IF holding = {}
                     THEN wind.region = NoRegion /\ wind.regionAnnotationId = Undefined
                     ELSE \E j \in holding :
                             /\ \A k \in holding :
                                   ctl.annotations[j].radius <= ctl.annotations[k].radius
                             /\ wind.region = [center |-> ctl.annotations[j].center,
                                               radius |-> ctl.annotations[j].radius]
                             /\ wind.regionAnnotationId = ctl.annotations[j].id
             ELSE ctl' = ctl
      ]_vars

\* an arrow was drawn with its midpoint inside two regions, the larger drawn first:
\* its wind is scoped to the smaller one
C33_Witness ==
    /\ lastOp.op = "pointerUpArrow" /\ "start" \in DOMAIN lastOp
    /\ lastOp.arg = uid("ann", 3)
    /\ Len(ctl.annotations) = 3
    /\ ctl.annotations[1].type = "region" /\ ctl.annotations[2].type = "region"
    /\ ctl.annotations[1].radius > ctl.annotations[2].radius
    /\ Last(ctl.forceFields).regionAnnotationId = ctl.annotations[2].id
    /\ Last(ctl.forceFields).annotationId = uid("ann", 3)

====
